---------------------------- MODULE Spec2Model ----------------------------
(***************************************************************************)
(* Model of the derived-variable calculation engine of MMM-Explorer        *)
(* (src/main/calculations.py): calculate_inputs, calculate_variable,       *)
(* calculate_gradient and the formula library, run against a container of  *)
(* Variables whose arrays live in a heap, so that aliasing is observable.  *)
(*                                                                         *)
(* Numbers.  A float is modelled as a fixed-point number, an integer count  *)
(* of 1/Scale in -FMax..FMax, plus the three IEEE specials PInf, NInf and   *)
(* NaN.  Every arithmetic operation rounds its exact result toward zero and *)
(* overflows to an infinity, and follows the IEEE rules for the specials    *)
(* (0/0 = NaN, x/0 = +-inf, inf - inf = NaN, NaN compares false).           *)
(*                                                                         *)
(* Arrays.  A 2-D array is a tuple of rows, a row a tuple of numbers; the  *)
(* radial axis is the first axis, time the second.                         *)
(*                                                                         *)
(* The Variable class (main/variables.py) is not part of the sources at    *)
(* hand; its methods are modelled from the specification's description of  *)
(* the post-processing policy.                                             *)
(***************************************************************************)
EXTENDS Integers, Sequences, FiniteSets, TLC

VARIABLES
    heap,        \* the arrays: heap[a] is the array at address a
    containers,  \* the Variable containers: containers[i] is container object i
    cdf_vars,    \* the caller's container (argument of calculate_inputs)
    cdf0,        \* the deep value of cdf_vars when the caller handed it over
    vars,        \* calculate_inputs' local `vars` (0 before the deep copy)
    drmin,       \* calculate_inputs' local `drmin` (<< >> before line 488)
    pc,          \* index of the stage of calculate_inputs being executed
    sub,         \* position inside the stage
    opts,        \* Options.instance
    trace,       \* history: the calls made so far, in order
    err,         \* the exception that ended the run, if any
    ret,         \* the container calculate_inputs returned (0 if none)
    run,         \* number of the current invocation of calculate_inputs
    out1,        \* the deep value of what the first invocation returned
    touched,     \* the containers the caller wrote into after a return
    \* mmm_controller.py and main/controls.py
    options,       \* Options.instance
    controls,      \* the InputControls object: control name -> values (<< >>: none yet)
    shot_type,     \* controls._shot_type
    mpc,           \* the statement of mmm_controller the program is at
    scan_i,        \* the index i of the scan loop (from 1)
    mmm_vars,      \* the container main holds: variable name -> value
    adjusted_vars, \* execute_variable_scan's adjusted_vars (<< >>: none)
    base_control,  \* execute_control_scan's base_control: its values
    input_file,    \* the MMM input file as last written (<< >>: none)
    output_file,   \* the MMM output file as last produced by the driver
    output_vars,   \* the output variables as last read
    log,           \* history: the steps of main so far, in order
    \* modules/controls.py
    mcontrols,     \* the InputControls object: control name -> values (<< >>: none)
    moptions,      \* its member options (None or an Options object)
    mresult,       \* how the last call on it ended
    \* plots/plot_profiles.py, run_plotting_loop
    plotdata,      \* the argument plotdata: "data" for a PlotData, "None" for None
    ppc,           \* the statement of run_plotting_loop the program is at
    loop_i,        \* the local i (-1: not bound)
    fig,           \* the local fig: the number of the figure (0: not bound)
    figures,       \* the figures made: figures[f][cell] is what subplot cell shows
    sheets,        \* the calls of fig.savefig so far: file number and figure
    perror         \* the exception that ended the loop ("" if none)

calc_vars == << heap, containers, cdf_vars, cdf0, vars, drmin, pc, sub, opts,
                trace, err, ret, run, out1, touched >>

ctl_vars == << options, controls, shot_type, mpc, scan_i, mmm_vars, adjusted_vars,
               base_control, input_file, output_file, output_vars, log >>

mod_vars == << mcontrols, moptions, mresult >>

plot_vars == << plotdata, ppc, loop_i, fig, figures, sheets, perror >>

all_vars == << calc_vars, ctl_vars, mod_vars, plot_vars >>

\* the parts of the program that are not running
CalcIdle ==
    /\ heap = << >> /\ containers = << >> /\ cdf_vars = 0 /\ cdf0 = << >>
    /\ vars = 0 /\ drmin = << >> /\ pc = 0 /\ sub = "idle" /\ opts = << >>
    /\ trace = << >> /\ err = << >> /\ ret = 0 /\ run = 0 /\ out1 = << >>
    /\ touched = {}

CtlIdle ==
    /\ options = << >> /\ controls = << >> /\ shot_type = "" /\ mpc = "idle"
    /\ scan_i = 0 /\ mmm_vars = << >> /\ adjusted_vars = << >> /\ base_control = << >>
    /\ input_file = << >> /\ output_file = << >> /\ output_vars = << >> /\ log = << >>

ModIdle == mcontrols = << >> /\ moptions = << >> /\ mresult = << >>

PlotIdle ==
    /\ plotdata = << >> /\ ppc = "idle" /\ loop_i = 0 - 1 /\ fig = 0
    /\ figures = << >> /\ sheets = << >> /\ perror = ""

---------------------------------------------------------------------------
(* Bounds of the model *)

\* numbers are fixed-point: the integer k stands for k / Scale
Scale == 100
\* largest finite magnitude a number can have (in units of 1 / Scale)
FMax == 20000000
\* number of time points of every array
NT == 2

---------------------------------------------------------------------------
(* Floating-point numbers *)

PInf == FMax + 1
NInf == 0 - (FMax + 1)
NaN == FMax + 2

\* the number k, k an integer
Num(k) == k * Scale

IsNaN(a) == a = NaN
IsInf(a) == a = PInf \/ a = NInf
IsFinite(a) == ~IsNaN(a) /\ ~IsInf(a)

Abs(a) == IF a < 0 THEN 0 - a ELSE a
Sign(a) == IF a < 0 THEN 0 - 1 ELSE IF a > 0 THEN 1 ELSE 0

\* an exact result brought back into the representable range
Sat(a) == IF a > FMax THEN PInf ELSE IF a < 0 - FMax THEN NInf ELSE a

Neg(a) == IF IsNaN(a) THEN NaN ELSE 0 - a

Add(a, b) ==
    IF IsNaN(a) \/ IsNaN(b) THEN NaN
    ELSE IF IsInf(a) /\ IsInf(b) THEN (IF a = b THEN a ELSE NaN)
    ELSE IF IsInf(a) THEN a
    ELSE IF IsInf(b) THEN b
    ELSE Sat(a + b)

Sub(a, b) == Add(a, Neg(b))

\* |a * b| for finite a, b >= 0, rounded toward zero; PInf on overflow
MulAbs(a, b) ==
    IF a \div Scale > 0 /\ b > FMax \div (a \div Scale) THEN PInf
    ELSE Sat((a \div Scale) * b + ((a % Scale) * b) \div Scale)

Mul(a, b) ==
    IF IsNaN(a) \/ IsNaN(b) THEN NaN
    ELSE IF IsInf(a) \/ IsInf(b)
         THEN (IF a = 0 \/ b = 0 THEN NaN
               ELSE IF Sign(a) * Sign(b) > 0 THEN PInf ELSE NInf)
    ELSE Sign(a) * Sign(b) * MulAbs(Abs(a), Abs(b))

\* truncating integer division, b # 0
TruncDiv(a, b) == Sign(a) * Sign(b) * (Abs(a) \div Abs(b))

\* |a / b| for finite a >= 0, b > 0, rounded toward zero; PInf on overflow
DivAbs(a, b) ==
    IF a \div b > FMax \div Scale THEN PInf
    ELSE Sat((a \div b) * Scale + ((a % b) * Scale) \div b)

Div(a, b) ==
    IF IsNaN(a) \/ IsNaN(b) THEN NaN
    ELSE IF IsInf(a) /\ IsInf(b) THEN NaN
    ELSE IF IsInf(a) THEN (IF b < 0 THEN Neg(a) ELSE a)
    ELSE IF IsInf(b) THEN 0
    ELSE IF b = 0 THEN (IF a = 0 THEN NaN ELSE IF a > 0 THEN PInf ELSE NInf)
    ELSE Sign(a) * Sign(b) * DivAbs(Abs(a), Abs(b))

RECURSIVE Bisect(_, _, _)
\* the largest k in lo..hi with k * k <= n
Bisect(n, lo, hi) ==
    IF lo >= hi THEN lo
    ELSE IF ((lo + hi + 1) \div 2) * ((lo + hi + 1) \div 2) <= n
         THEN Bisect(n, (lo + hi + 1) \div 2, hi)
         ELSE Bisect(n, lo, ((lo + hi + 1) \div 2) - 1)

\* a ** (1/2)
Sqrt(a) ==
    IF IsNaN(a) THEN NaN
    ELSE IF a = PInf THEN PInf
    ELSE IF a < 0 THEN NaN
    ELSE Bisect(a * Scale, 0, 46340)

\* ln 2
Ln2 == (69 * Scale) \div 100

\* ln a for 1 <= a < 2, by the series of 2 * atanh((a - 1) / (a + 1))
LogSeries(a) ==
    LET z == Div(a - Scale, a + Scale)
        z2 == Mul(z, z)
    IN  Mul(Num(2), Add(z, Add(Div(Mul(z, z2), Num(3)),
                               Div(Mul(Mul(z, z2), z2), Num(5)))))

RECURSIVE LogPos(_)
\* ln a for finite a > 0
LogPos(a) ==
    IF a >= 2 * Scale THEN LogPos(a \div 2) + Ln2
    ELSE IF a < Scale THEN LogPos(2 * a) - Ln2
    ELSE LogSeries(a)

\* np.log: log(0) = -inf, log of a negative number = NaN
Log(a) ==
    IF IsNaN(a) THEN NaN
    ELSE IF a = PInf THEN PInf
    ELSE IF a < 0 THEN NaN
    ELSE IF a = 0 THEN NInf
    ELSE LogPos(a)

\* a < b and a > b as numpy evaluates them (False when either side is NaN)
Lt(a, b) == ~IsNaN(a) /\ ~IsNaN(b) /\ a < b
Gt(a, b) == ~IsNaN(a) /\ ~IsNaN(b) /\ a > b

---------------------------------------------------------------------------
(* Arrays *)

Rows(A) == Len(A)
Cols(A) == IF Len(A) = 0 THEN 0 ELSE Len(A[1])
Shape(A) == << Rows(A), Cols(A) >>

Map1(Op(_), A) == [i \in 1..Len(A) |-> [j \in 1..Len(A[i]) |-> Op(A[i][j])]]
Map2(Op(_, _), A, B) ==
    [i \in 1..Len(A) |-> [j \in 1..Len(A[i]) |-> Op(A[i][j], B[i][j])]]

\* array (op) scalar and scalar (op) array
MapS(Op(_, _), A, s) == [i \in 1..Len(A) |-> [j \in 1..Len(A[i]) |-> Op(A[i][j], s)]]
SMap(Op(_, _), s, A) == [i \in 1..Len(A) |-> [j \in 1..Len(A[i]) |-> Op(s, A[i][j])]]

\* array (op) row and row (op) array: the row is broadcast over the first axis
MapRow(Op(_, _), A, row) ==
    [i \in 1..Len(A) |-> [j \in 1..Len(A[i]) |-> Op(A[i][j], row[j])]]
RowMap(Op(_, _), row, A) ==
    [i \in 1..Len(A) |-> [j \in 1..Len(A[i]) |-> Op(row[j], A[i][j])]]

\* np.zeros((n, m))
Zeros(n, m) == [i \in 1..n |-> [j \in 1..m |-> 0]]

\* np.diff(A, axis=0)
Diff(A) == [i \in 1..(Len(A) - 1) |-> [j \in 1..Len(A[i]) |-> Sub(A[i + 1][j], A[i][j])]]

Elems(A) == { A[i][j] : i \in 1..Len(A), j \in 1..Cols(A) }

---------------------------------------------------------------------------
(* Physical constants (main/constants.py), in model units *)

PI == Div(Num(314), Num(100))
ZCE == Num(1)
ZCEPS0 == Div(Num(8), Num(100))
ZCMU0 == Mul(Num(4), PI)
ZCME == Num(1)
ZCMP == Num(2)
ZCKB == ZCE
ZCF == Mul(Mul(Mul(Div(Mul(Num(4), Sqrt(PI)), Num(3)),
                   Mul(Div(ZCE, Mul(Mul(Num(4), PI), ZCEPS0)),
                       Div(ZCE, Mul(Mul(Num(4), PI), ZCEPS0)))),
               Div(ZCE, ZCKB)),
           Sqrt(Mul(Div(ZCE, ZCME), Div(ZCE, ZCKB))))

---------------------------------------------------------------------------
(* The Variables of a container *)

\* Variables the upstream collaborator supplies
Sources == { "nd", "ne", "nf", "nz", "zimp", "aimp", "rmin", "rmaj", "te", "ti",
             "omega", "bz", "q", "arat", "elong", "x", "xb", "time",
             "vpolavg", "vpold", "vpolh" }

\* the three optional measured sources of vpol
VpolSources == { "vpolavg", "vpold", "vpolh" }

\* section 4.1's listing of the formulas that run before the gradients
Section41Order ==
    << "vpol", "nh0", "nh", "ni", "ahyd", "aimass", "rho", "tau",
       "vtor", "vpar", "zeff", "btor", "bpol",
       "eps", "p", "beta", "betae", "loge", "nuei", "nuei2", "vthe", "vthi",
       "nuste", "nusti", "gyrfi", "gmax" >>

\* the statements of lines 460-485 with eps and p exchanged
PressureFirst ==
    << "vpol", "nh0", "nh", "ni", "ahyd", "aimass", "rho", "tau",
       "btor", "bpol", "vtor", "vpar", "zeff",
       "p", "eps", "beta", "betae", "loge", "nuei", "nuei2", "vthe", "vthi",
       "nuste", "nusti", "gyrfi", "gmax" >>

\* the formulas calculate_inputs runs before the gradients, in the order of
\* its statements
PreGradient ==
    << "vpol", "nh0", "nh", "ni", "ahyd", "aimass", "rho", "tau",
       "btor", "bpol", "vtor", "vpar", "zeff",
       "eps", "p", "beta", "betae", "loge", "nuei", "nuei2", "vthe", "vthi",
       "nuste", "nusti", "gyrfi", "gmax" >>

\* the gradient statements with that of gne made a second time, on gni
GradientOfGradient ==
    << << "gne", "ne", 0 - 1 >>, << "gnh", "nh", 0 - 1 >>, << "gni", "ni", 0 - 1 >>,
       << "gnz", "nz", 0 - 1 >>, << "gnd", "nd", 0 - 1 >>, << "gq", "q", 1 >>,
       << "gte", "te", 0 - 1 >>, << "gti", "ti", 0 - 1 >>,
       << "gvpar", "vpar", 0 - 1 >>, << "gvpol", "vpol", 0 - 1 >>,
       << "gvtor", "vtor", 0 - 1 >>, << "gne", "gni", 0 - 1 >> >>

\* the gradient statements with -drmin passed for gq as well
AllNegated ==
    << << "gne", "ne", 0 - 1 >>, << "gnh", "nh", 0 - 1 >>, << "gni", "ni", 0 - 1 >>,
       << "gnz", "nz", 0 - 1 >>, << "gnd", "nd", 0 - 1 >>, << "gq", "q", 0 - 1 >>,
       << "gte", "te", 0 - 1 >>, << "gti", "ti", 0 - 1 >>,
       << "gvpar", "vpar", 0 - 1 >>, << "gvpol", "vpol", 0 - 1 >>,
       << "gvtor", "vtor", 0 - 1 >> >>

\* the gradients: the Variable written, the Variable differentiated, the sign
\* drmin is passed with
GradientCalls ==
    << << "gne", "ne", 0 - 1 >>, << "gnh", "nh", 0 - 1 >>, << "gni", "ni", 0 - 1 >>,
       << "gnz", "nz", 0 - 1 >>, << "gnd", "nd", 0 - 1 >>, << "gq", "q", 1 >>,
       << "gte", "te", 0 - 1 >>, << "gti", "ti", 0 - 1 >>,
       << "gvpar", "vpar", 0 - 1 >>, << "gvpol", "vpol", 0 - 1 >>,
       << "gvtor", "vtor", 0 - 1 >> >>

\* the statements of lines 504-512 with shat moved before shear
ShatFirst ==
    << "shat", "shear", "alphamhd", "gave", "etae", "etai", "etaie", "etaih", "etaid" >>

\* the statements of lines 504-512 with the self-test formula among them
TestAmongOrdinary ==
    << "shear", "shat", "alphamhd", "gave", "test", "etae", "etai", "etaie", "etaih",
       "etaid" >>

\* the formulas that use gradients, in the order of their statements
PostGradient ==
    << "shear", "shat", "alphamhd", "gave", "etae", "etai", "etaie", "etaih", "etaid" >>

VarStage(n) == [kind |-> "var", name |-> n, src |-> "", sign |-> 0]
GradStage(g) == [kind |-> "grad", name |-> g[1], src |-> g[2], sign |-> g[3]]

\* the stages of calculate_inputs, in the order of its statements
Stages ==
    [i \in 1..Len(PreGradient) |-> VarStage(PreGradient[i])]
    \o << [kind |-> "drmin", name |-> "drmin", src |-> "rmin", sign |-> 0] >>
    \o [i \in 1..Len(GradientCalls) |-> GradStage(GradientCalls[i])]
    \o [i \in 1..Len(PostGradient) |-> VarStage(PostGradient[i])]
    \o << VarStage("test"), GradStage(<< "gtest", "test", 0 - 1 >>), VarStage("test2") >>

NStages == Len(Stages)

\* the Variables some stage writes
Formulas == { Stages[i].name : i \in { k \in 1..NStages : Stages[k].kind = "var" } }
Gradients == { Stages[i].name : i \in { k \in 1..NStages : Stages[k].kind = "grad" } }
Derived == Formulas \cup Gradients

Names == Sources \cup Derived

\* the value of Variable n of container c: the array its `values` refers to
Val(h, c, n) == h[c.vals[n]]

\* Variable n of container c has values None
IsNone(c, n) == c.vals[n] = 0

---------------------------------------------------------------------------
(* The formula library: the array each formula hands to set_variable *)

\* the choice of vpol with the Doppler measurement tried first
DopplerFirst(c) ==
    IF ~IsNone(c, "vpold") THEN "vpold"
    ELSE IF ~IsNone(c, "vpolavg") THEN "vpolavg"
    ELSE IF ~IsNone(c, "vpolh") THEN "vpolh"
    ELSE ""

\* the source vpol takes its values from ("" when all three are None)
vpolPick(c) ==
    IF ~IsNone(c, "vpolavg") THEN "vpolavg"
    ELSE IF ~IsNone(c, "vpold") THEN "vpold"
    ELSE IF ~IsNone(c, "vpolh") THEN "vpolh"
    ELSE ""

vpol(h, c) ==
    IF vpolPick(c) = ""
    THEN Zeros(Rows(Val(h, c, "xb")), Len(Val(h, c, "time")))
    ELSE Val(h, c, vpolPick(c))

nh0(h, c) ==
    Map2(Sub, Map2(Sub, Map2(Sub, Val(h, c, "ne"),
                                  Map2(Mul, Val(h, c, "zimp"), Val(h, c, "nz"))),
                        Val(h, c, "nf")),
              Val(h, c, "nd"))

\* nh with the electron density taken for the deuterium density
NhFromNe(h, c) == Map2(Add, Val(h, c, "nh0"), Val(h, c, "ne"))

\* ni without the impurity density
NiWithoutNz(h, c) == Map2(Add, Val(h, c, "nd"), Val(h, c, "nh0"))

nh(h, c) == Map2(Add, Val(h, c, "nh0"), Val(h, c, "nd"))

ni(h, c) == Map2(Add, Map2(Add, Val(h, c, "nd"), Val(h, c, "nz")), Val(h, c, "nh0"))

ahyd(h, c) ==
    Map2(Div, Map2(Add, Val(h, c, "nh0"), SMap(Mul, Num(2), Val(h, c, "nd"))),
              Map2(Add, Val(h, c, "nh0"), Val(h, c, "nd")))

aimass(h, c) ==
    Map2(Div, Map2(Add, Map2(Mul, Val(h, c, "ahyd"), Val(h, c, "nh")),
                        Map2(Mul, Val(h, c, "aimp"), Val(h, c, "nz"))),
              Map2(Add, Val(h, c, "nh"), Val(h, c, "nz")))

\* rmin[-1, :] / rmin[-1, :]: the last radial row alone
RhoOfLastRow(h, c) ==
    << [j \in 1..Cols(Val(h, c, "rmin")) |->
          Div(Val(h, c, "rmin")[Rows(Val(h, c, "rmin"))][j],
              Val(h, c, "rmin")[Rows(Val(h, c, "rmin"))][j])] >>

\* rmin / rmin[-1, :]
rho(h, c) ==
    MapRow(Div, Val(h, c, "rmin"), Val(h, c, "rmin")[Rows(Val(h, c, "rmin"))])

tau(h, c) == Map2(Div, Val(h, c, "te"), Val(h, c, "ti"))

vtor(h, c) == Map2(Mul, Val(h, c, "rmaj"), Val(h, c, "omega"))

vpar(h, c) ==
    Map2(Add, Val(h, c, "vtor"),
              Map2(Div, Map2(Mul, Val(h, c, "vpol"), Val(h, c, "bpol")),
                        Val(h, c, "btor")))

zeff(h, c) ==
    Map2(Div, Map2(Add, Map2(Add, Val(h, c, "nh"), Val(h, c, "nf")),
                        Map2(Mul, Map2(Mul, Val(h, c, "zimp"), Val(h, c, "zimp")),
                                  Val(h, c, "nz"))),
              Val(h, c, "ne"))

\* raxis / rmaj * bz with raxis = rmaj[0, :]
btor(h, c) ==
    Map2(Mul, RowMap(Div, Val(h, c, "rmaj")[1], Val(h, c, "rmaj")), Val(h, c, "bz"))

bpol(h, c) ==
    Map2(Div, Map2(Mul, Map2(Div, Val(h, c, "rmin"), Val(h, c, "rmaj")),
                        Val(h, c, "btor")),
              Val(h, c, "q"))

eps(h, c) == SMap(Div, Num(1), Val(h, c, "arat"))

p(h, c) ==
    MapS(Mul, Map2(Add, Map2(Mul, Val(h, c, "ne"), Val(h, c, "te")),
                        Map2(Mul, Val(h, c, "ni"), Val(h, c, "ti"))),
              ZCKB)

beta(h, c) ==
    Map2(Div, SMap(Mul, Mul(Num(2), ZCMU0), Val(h, c, "p")),
              Map2(Mul, Val(h, c, "btor"), Val(h, c, "btor")))

betae(h, c) ==
    Map2(Div, MapS(Mul, Map2(Mul, SMap(Mul, Mul(Num(2), ZCMU0), Val(h, c, "ne")),
                                  Val(h, c, "te")),
                        ZCKB),
              Map2(Mul, Val(h, c, "btor"), Val(h, c, "btor")))

\* 37.8 - np.log(ne**(1 / 2) / te); zeff is read and not used
loge(h, c) ==
    SMap(Sub, Div(Num(378), Num(10)), Map1(Log, Map2(Div, Map1(Sqrt, Val(h, c, "ne")), Val(h, c, "te"))))

\* a ** (3/2)
Pow32(a) == Mul(a, Sqrt(a))
\* a ** (-3/2)
PowM32(a) == Div(Num(1), Pow32(a))

nuei(h, c) ==
    Map2(Div, Map2(Mul, Map2(Mul, SMap(Mul, Mul(ZCF, Sqrt(Num(2))), Val(h, c, "ne")),
                                  Val(h, c, "loge")),
                        Val(h, c, "zeff")),
              Map1(Pow32, Val(h, c, "te")))

nuei2(h, c) ==
    Map2(Div, Map2(Mul, Map2(Mul, SMap(Mul, Mul(ZCF, Sqrt(Num(2))), Val(h, c, "ni")),
                                  Val(h, c, "loge")),
                        Val(h, c, "zeff")),
              Map1(Pow32, Val(h, c, "ti")))

vthe(h, c) ==
    Map1(Sqrt, MapS(Div, SMap(Mul, Mul(Num(2), ZCKB), Val(h, c, "te")), ZCME))

vthi(h, c) ==
    Map1(Sqrt, Map2(Div, SMap(Mul, ZCKB, Val(h, c, "ti")),
                         SMap(Mul, ZCMP, Val(h, c, "aimass"))))

nuste(h, c) ==
    Map2(Div, Map2(Mul, Map2(Mul, Map2(Mul, Val(h, c, "nuei"),
                                            Map1(PowM32, Val(h, c, "eps"))),
                                  Val(h, c, "q")),
                        Val(h, c, "rmaj")),
              Val(h, c, "vthe"))

nusti(h, c) ==
    MapS(Mul, Map2(Div, Map2(Mul, Map2(Mul, Map2(Mul, Val(h, c, "nuei2"),
                                                      Map1(PowM32, Val(h, c, "eps"))),
                                            Val(h, c, "q")),
                                  Val(h, c, "rmaj")),
                        SMap(Mul, Num(2), Val(h, c, "vthi"))),
              Sqrt(Div(ZCME, ZCMP)))

gyrfi(h, c) ==
    Map2(Div, SMap(Mul, ZCE, Val(h, c, "btor")), SMap(Mul, ZCMP, Val(h, c, "aimass")))

gmax(h, c) ==
    Map2(Div, Val(h, c, "rmaj"),
              Map2(Div, Map2(Mul, Map2(Div, Val(h, c, "vthi"), Val(h, c, "gyrfi")),
                                  Val(h, c, "q")),
                        Val(h, c, "eps")))

shear(h, c) ==
    Map2(Div, Map2(Mul, Val(h, c, "gq"), Val(h, c, "rmin")), Val(h, c, "rmaj"))

\* (2 * shear - 1 + (elong * (shear - 1))**2)**(1/2) for one element
shatRoot(s, e) ==
    Sqrt(Add(Sub(Mul(Num(2), s), Num(1)),
             Mul(Mul(e, Sub(s, Num(1))), Mul(e, Sub(s, Num(1))))))

\* shat[shat < 0] = 0
shatFloor(a) == IF Lt(a, 0) THEN 0 ELSE a

shat(h, c) ==
    Map1(shatFloor, Map2(shatRoot, Val(h, c, "shear"), Val(h, c, "elong")))

alphamhd(h, c) ==
    Map2(Mul, Map2(Mul, Map2(Mul, Val(h, c, "q"), Val(h, c, "q")), Val(h, c, "betae")),
              Map2(Add, Map2(Add, Val(h, c, "gne"), Val(h, c, "gte")),
                        Map2(Mul, Map2(Div, Val(h, c, "ti"), Val(h, c, "te")),
                                  Map2(Add, Val(h, c, "gni"), Val(h, c, "gti")))))

\* 2/3 + 5/9 * shear - 5/12 * alphamhd
gave(h, c) ==
    Map2(Sub, SMap(Add, Div(Num(2), Num(3)),
                        SMap(Mul, Div(Num(5), Num(9)), Val(h, c, "shear"))),
              SMap(Mul, Div(Num(5), Num(12)), Val(h, c, "alphamhd")))

etae(h, c) == Map2(Div, Val(h, c, "gte"), Val(h, c, "gne"))
etai(h, c) == Map2(Div, Val(h, c, "gti"), Val(h, c, "gni"))
etaih(h, c) == Map2(Div, Val(h, c, "gti"), Val(h, c, "gnh"))
etaie(h, c) == Map2(Div, Val(h, c, "gti"), Val(h, c, "gne"))
etaid(h, c) == Map2(Div, Val(h, c, "gti"), Val(h, c, "gnd"))

test(h, c) == Map2(Add, Val(h, c, "nh"), Val(h, c, "nd"))
test2(h, c) == Map2(Div, Val(h, c, "gti"), Val(h, c, "gtest"))

\* var_function(vars) for the function named f
Formula(f, h, c) ==
    CASE f = "vpol" -> vpol(h, c)     [] f = "nh0" -> nh0(h, c)
      [] f = "nh" -> nh(h, c)         [] f = "ni" -> ni(h, c)
      [] f = "ahyd" -> ahyd(h, c)     [] f = "aimass" -> aimass(h, c)
      [] f = "rho" -> rho(h, c)       [] f = "tau" -> tau(h, c)
      [] f = "vtor" -> vtor(h, c)     [] f = "vpar" -> vpar(h, c)
      [] f = "zeff" -> zeff(h, c)     [] f = "btor" -> btor(h, c)
      [] f = "bpol" -> bpol(h, c)     [] f = "eps" -> eps(h, c)
      [] f = "p" -> p(h, c)           [] f = "beta" -> beta(h, c)
      [] f = "betae" -> betae(h, c)   [] f = "loge" -> loge(h, c)
      [] f = "nuei" -> nuei(h, c)     [] f = "nuei2" -> nuei2(h, c)
      [] f = "vthe" -> vthe(h, c)     [] f = "vthi" -> vthi(h, c)
      [] f = "nuste" -> nuste(h, c)   [] f = "nusti" -> nusti(h, c)
      [] f = "gyrfi" -> gyrfi(h, c)   [] f = "gmax" -> gmax(h, c)
      [] f = "shear" -> shear(h, c)   [] f = "shat" -> shat(h, c)
      [] f = "alphamhd" -> alphamhd(h, c) [] f = "gave" -> gave(h, c)
      [] f = "etae" -> etae(h, c)     [] f = "etai" -> etai(h, c)
      [] f = "etaih" -> etaih(h, c)   [] f = "etaie" -> etaie(h, c)
      [] f = "etaid" -> etaid(h, c)   [] f = "test" -> test(h, c)
      [] f = "test2" -> test2(h, c)

\* the Variables whose `.values` function f reads
Reads(f) ==
    CASE f = "vpol" -> { "xb", "time", "vpolavg", "vpold", "vpolh" }
      [] f = "nh0" -> { "nd", "ne", "nf", "nz", "zimp" }
      [] f = "nh" -> { "nh0", "nd" }
      [] f = "ni" -> { "nd", "nh0", "nz" }
      [] f = "ahyd" -> { "nh0", "nd" }
      [] f = "aimass" -> { "ahyd", "aimp", "nh", "nz" }
      [] f = "rho" -> { "rmin" }
      [] f = "tau" -> { "te", "ti" }
      [] f = "vtor" -> { "rmaj", "omega" }
      [] f = "vpar" -> { "bpol", "btor", "vpol", "vtor" }
      [] f = "zeff" -> { "ne", "nf", "nh", "nz", "zimp" }
      [] f = "btor" -> { "bz", "rmaj" }
      [] f = "bpol" -> { "btor", "q", "rmaj", "rmin" }
      [] f = "eps" -> { "arat" }
      [] f = "p" -> { "ne", "ni", "te", "ti" }
      [] f = "beta" -> { "btor", "p" }
      [] f = "betae" -> { "btor", "ne", "te" }
      [] f = "loge" -> { "ne", "te", "zeff" }
      [] f = "nuei" -> { "ne", "te", "zeff", "loge" }
      [] f = "nuei2" -> { "ni", "ti", "zeff", "loge" }
      [] f = "vthe" -> { "te" }
      [] f = "vthi" -> { "aimass", "ti" }
      [] f = "nuste" -> { "eps", "nuei", "q", "rmaj", "vthe" }
      [] f = "nusti" -> { "eps", "q", "nuei2", "rmaj", "vthi" }
      [] f = "gyrfi" -> { "aimass", "btor" }
      [] f = "gmax" -> { "eps", "q", "rmaj", "gyrfi", "vthi" }
      [] f = "shear" -> { "gq", "rmaj", "rmin" }
      [] f = "shat" -> { "elong", "shear" }
      [] f = "alphamhd" -> { "betae", "gne", "gni", "gte", "gti", "q", "te", "ti" }
      [] f = "gave" -> { "shear", "alphamhd" }
      [] f = "etae" -> { "gte", "gne" }
      [] f = "etai" -> { "gti", "gni" }
      [] f = "etaih" -> { "gti", "gnh" }
      [] f = "etaie" -> { "gti", "gne" }
      [] f = "etaid" -> { "gti", "gnd" }
      [] f = "test" -> { "nh", "nd" }
      [] f = "test2" -> { "gti", "gtest" }

\* the Variables function f computes with: a None among them makes it raise
Uses(f) ==
    CASE f = "vpol" -> { "xb", "time" }
      [] f = "loge" -> { "ne", "te" }
      [] OTHER -> Reads(f)

\* the exception function f raises on a None operand
RaisedBy(f) == IF f = "vpol" THEN "AttributeError" ELSE "TypeError"

\* the units function f passes to set_variable ("" where it passes none)
UnitsOf(f, c) ==
    CASE f \in { "vpol", "vtor" } -> "M/SEC"
      [] f \in { "nh0", "ni" } -> c.units["ne"]
      [] f = "vpar" -> c.units["vtor"]
      [] f = "btor" -> c.units["bz"]
      [] f = "bpol" -> c.units["btor"]
      [] f = "p" -> "PA"
      [] f \in { "nuei", "nuei2", "gyrfi" } -> "s^-1"
      [] f \in { "vthe", "vthi" } -> "m/s"
      [] OTHER -> ""

\* test and test2 call set_variable(values) alone
PassesUnits(f) == f \notin { "test", "test2" }

---------------------------------------------------------------------------
(* The Variable class: post-processing transforms of one array *)

\* the smallest value a floored quantity may take (in units of 1 / Scale)
MinFloor == 1

\* a bound a hundred times that of line 429
WideClamp == 100 * 100

\* the bound calculate_gradient passes to clamp_gradient
GradientClamp == 100

\* an entry is an outlier when it lies further from the mean than
\* OutlierM times the mean deviation
OutlierM == 2

\* Variables that carry a minimum value: the quantities that are positive by nature
Floored == { "nh0", "nh", "ni", "ahyd", "aimass", "tau", "zeff", "p", "beta",
             "betae", "nuei", "nuei2", "vthe", "vthi", "nuste", "nusti",
             "gyrfi", "gmax" }

\* Variables eligible for smoothing
Smoothed == Derived

\* one smoothed entry: the radial neighbours weigh in with half the entry's weight
SmoothAt(A, i, j) ==
    Div(Add(Add(A[IF i = 1 THEN 1 ELSE i - 1][j], Mul(Num(2), A[i][j])),
            A[IF i = Len(A) THEN i ELSE i + 1][j]), Num(4))

SmoothArr(A) == [i \in 1..Len(A) |-> [j \in 1..Len(A[i]) |-> SmoothAt(A, i, j)]]

ClampOne(a, m) == IF Gt(a, m) THEN m ELSE IF Lt(a, 0 - m) THEN 0 - m ELSE a
ClampArr(A, m) == [i \in 1..Len(A) |-> [j \in 1..Len(A[i]) |-> ClampOne(A[i][j], m)]]

FloorOne(a, m) == IF Lt(a, m) THEN m ELSE a
FloorArr(A, m) == [i \in 1..Len(A) |-> [j \in 1..Len(A[i]) |-> FloorOne(A[i][j], m)]]

RECURSIVE SumRow(_, _)
SumRow(row, k) == IF k = 0 THEN 0 ELSE row[k] + SumRow(row, k - 1)
RECURSIVE SumArr(_, _)
SumArr(A, k) == IF k = 0 THEN 0 ELSE SumRow(A[k], Len(A[k])) + SumArr(A, k - 1)

Size(A) == Rows(A) * Cols(A)
Mean(A) == TruncDiv(SumArr(A, Len(A)), Size(A))
Deviations(A, mean) == [i \in 1..Len(A) |-> [j \in 1..Len(A[i]) |-> Abs(A[i][j] - mean)]]

\* with a NaN or an infinity in the array its mean is not a number and
\* no entry compares as an outlier
RejectArr(A) ==
    IF \E a \in Elems(A) : ~IsFinite(a) THEN A
    ELSE LET dev == Deviations(A, Mean(A))
             total == SumArr(dev, Len(dev))
         IN  [i \in 1..Len(A) |-> [j \in 1..Len(A[i]) |->
                IF dev[i][j] * Size(A) > OutlierM * total THEN NaN ELSE A[i][j]]]

RemoveNanOne(a) == IF IsNaN(a) THEN 0 ELSE a
RemoveNanArr(A) == Map1(RemoveNanOne, A)

\* Variable.apply_smoothing(input_points)
apply_smoothing(n, A, input_points) == IF n \in Smoothed THEN SmoothArr(A) ELSE A
\* Variable.clamp_gradient(m)
clamp_gradient(A, m) == ClampArr(A, m)
\* Variable.set_minvalue()
set_minvalue(n, A) == IF n \in Floored THEN FloorArr(A, MinFloor) ELSE A
\* Variable.reject_outliers()
reject_outliers(A) == RejectArr(A)
\* Variable.remove_nan()
remove_nan(A) == RemoveNanArr(A)

---------------------------------------------------------------------------
(* calculate_gradient, lines 407-423: the array handed to set_variable *)

\* A[:, 0]
FirstCol(A) == [i \in 1..Len(A) |-> A[i][1]]

RECURSIVE Basis(_, _, _, _)
\* the i-th basis polynomial on the nodes xs at t: the product over the nodes
\* k in 1..n, k # i, of (t - xs[k]) / (xs[i] - xs[k])
Basis(xs, t, i, n) ==
    IF n = 0 THEN Num(1)
    ELSE IF n = i THEN Basis(xs, t, i, n - 1)
    ELSE Mul(Div(Sub(t, xs[n]), Sub(xs[i], xs[n])), Basis(xs, t, i, n - 1))

RECURSIVE Combine(_, _, _, _)
\* the sum over the nodes 1..n of weight * value in column j
Combine(w, Y, j, n) ==
    IF n = 0 THEN 0 ELSE Add(Mul(w[n], Y[n][j]), Combine(w, Y, j, n - 1))

\* interp1d(x, Y, kind='cubic', fill_value="extrapolate", axis=0)(xb): the cubic
\* through the four nodes of x, evaluated (and extrapolated) at every point of xb
Interp(xs, Y, xbs) ==
    [i \in 1..Len(xbs) |->
        LET w == [k \in 1..Len(xs) |-> Basis(xs, xbs[i], k, Len(xs))]
        IN  [j \in 1..Cols(Y) |-> Combine(w, Y, j, Len(xs))]]

\* var.values[:-1] / drmin: the division without the difference
QuotientOnly(V, dr) == Map2(Div, SubSeq(V, 1, Len(V) - 1), dr)

\* np.diff(var.values, axis=0) / drmin
dxvar(V, dr) == Map2(Div, Diff(V), dr)

\* rmaj * dxvar / var.values
gradient_values(h, c, src, dr) ==
    Map2(Div, Map2(Mul, Val(h, c, "rmaj"),
                        Interp(FirstCol(Val(h, c, "x")), dxvar(Val(h, c, src), dr),
                               FirstCol(Val(h, c, "xb")))),
              Val(h, c, src))

\* the drmin argument of a gradient call: drmin or -drmin
SignedDrmin(dr, sign) == IF sign < 0 THEN Map1(Neg, dr) ELSE dr

\* the Variables calculate_gradient reads for source src
GradReads(src) == { "rmaj", "x", "xb", src }

\* the exception calculate_gradient raises when one of them is None: the
\* subscript of x or xb (lines 408-409), np.diff (416) or rmaj * dxvar (423)
GradRaised(c, src) ==
    IF IsNone(c, "x") \/ IsNone(c, "xb") THEN "TypeError"
    ELSE IF IsNone(c, src) THEN "ValueError"
    ELSE "TypeError"

---------------------------------------------------------------------------
(* Objects: containers and the arrays their Variables refer to *)

\* Variable m of some container, other than Variable n of container id, refers
\* to the array at address a
Shared(cs, a, id, n) ==
    \E i \in 1..Len(cs) : \E m \in Names :
        /\ cs[i].vals[m] = a
        /\ ~(i = id /\ m = n)

\* Variable n of container id is given a newly made array A.  The array it
\* referred to before is reclaimed when nothing else refers to it, and the new
\* array then takes its place in the heap.
Store(cs, h, id, n, A) ==
    IF cs[id].vals[n] # 0 /\ ~Shared(cs, cs[id].vals[n], id, n)
    THEN [ containers |-> cs, heap |-> [h EXCEPT ![cs[id].vals[n]] = A] ]
    ELSE [ containers |-> [cs EXCEPT ![id].vals[n] = Len(h) + 1],
           heap |-> Append(h, A) ]

\* no copy at all: the container itself
NoCopy(cs, h, id) == [ containers |-> cs, heap |-> h, id |-> id ]

\* copy.copy(cs[id]): a new container whose Variables refer to the same arrays
ShallowCopy(cs, h, id) ==
    [ containers |-> Append(cs, cs[id]), heap |-> h, id |-> Len(cs) + 1 ]

\* copy.deepcopy(cs[id]): a new container whose Variables refer to new arrays
DeepCopy(cs, h, id) ==
    LET used == { cs[id].vals[n] : n \in Names } \ { 0 }
        rank == [a \in used |-> Cardinality({ b \in used : b <= a })]
        copies == [k \in 1..Cardinality(used) |-> h[CHOOSE a \in used : rank[a] = k]]
    IN  [ containers |-> Append(cs, [cs[id] EXCEPT !.vals =
                             [n \in Names |-> IF cs[id].vals[n] = 0 THEN 0
                                              ELSE Len(h) + rank[cs[id].vals[n]]]]),
          heap |-> h \o copies,
          id |-> Len(cs) + 1 ]

\* Variable.set_variable(values, units, dimensions) with a newly made array
SetNew(cs, h, id, n, A, units, dims) ==
    LET r == Store(cs, h, id, n, A)
    IN  [ containers |-> [r.containers EXCEPT ![id].units[n] = units,
                                              ![id].dims[n] = dims],
          heap |-> r.heap ]

\* Variable.set_variable(values, units, dimensions) with the array of Variable m
SetAlias(cs, h, id, n, m, units, dims) ==
    [ containers |-> [cs EXCEPT ![id].vals[n] = cs[id].vals[m],
                                ![id].units[n] = units,
                                ![id].dims[n] = dims],
      heap |-> h ]

\* a post-processing method of Variable n: its values become the array A
Rebind(cs, h, id, n, A) == Store(cs, h, id, n, A)

\* what a container holds, arrays included
DeepValue(cs, h, id) ==
    [ vals |-> [n \in Names |-> IF cs[id].vals[n] = 0 THEN << >> ELSE h[cs[id].vals[n]]],
      units |-> cs[id].units,
      dims |-> cs[id].dims ]

---------------------------------------------------------------------------
(* The containers calculate_inputs is called with *)

\* the boundary grid xb (it includes the origin) and the primary grid x
XB == << 0, 2, 4, 6, 8 >>
XC == << 1, 3, 5, 7 >>
NR == Len(XB)

Grid(F(_, _), rows) == [i \in 1..rows |-> [j \in 1..NT |-> Num(F(i, j))]]

\* a plausible discharge: densities and temperatures fall outward, q rises
BaseArr(n) ==
    CASE n = "ne" -> Grid(LAMBDA i, j : 60 - 8 * i + j, NR)
      [] n = "nd" -> Grid(LAMBDA i, j : 20 - 2 * i, NR)
      [] n = "nf" -> Grid(LAMBDA i, j : 2, NR)
      [] n = "nz" -> Grid(LAMBDA i, j : 1, NR)
      [] n = "zimp" -> Grid(LAMBDA i, j : 6, NR)
      [] n = "aimp" -> Grid(LAMBDA i, j : 12, NR)
      [] n = "rmin" -> Grid(LAMBDA i, j : 5 * XB[i], NR)
      [] n = "rmaj" -> Grid(LAMBDA i, j : 100 + XB[i], NR)
      [] n = "te" -> Grid(LAMBDA i, j : 30 - 4 * i + j, NR)
      [] n = "ti" -> Grid(LAMBDA i, j : 24 - 3 * i, NR)
      [] n = "omega" -> Grid(LAMBDA i, j : 3, NR)
      [] n = "bz" -> Grid(LAMBDA i, j : 10, NR)
      [] n = "q" -> Grid(LAMBDA i, j : i, NR)
      [] n = "arat" -> Grid(LAMBDA i, j : 1, NR)
      [] n = "elong" -> Grid(LAMBDA i, j : 2, NR)
      [] n = "x" -> Grid(LAMBDA i, j : XC[i], NR - 1)
      [] n = "xb" -> Grid(LAMBDA i, j : XB[i], NR)
      [] n = "time" -> [j \in 1..NT |-> Num(j)]
      [] n = "vpolavg" -> Grid(LAMBDA i, j : 7 - i, NR)
      [] n = "vpold" -> Grid(LAMBDA i, j : 5 - i, NR)
      [] n = "vpolh" -> Grid(LAMBDA i, j : 0 - i, NR)
      [] OTHER -> Grid(LAMBDA i, j : 9, NR)

\* the shapes a source array is varied through
Profiles == { "const", "zero", "steep", "nan" }

ProfArr(prof, A) ==
    CASE prof = "const" -> [i \in 1..Len(A) |-> [A[i] EXCEPT ![1] = Num(7)]]
      [] prof = "zero" -> [A EXCEPT ![3][1] = 0]
      [] prof = "steep" -> [A EXCEPT ![3][1] = Num(1), ![4][1] = Num(900)]
      [] prof = "nan" -> [A EXCEPT ![2][1] = NaN]
      [] prof = "oblate" -> [i \in 1..Len(A) |-> [j \in 1..Len(A[i]) |-> Num(1) \div 2]]
      [] prof = "ledge" -> [i \in 1..Len(A) |->
                              [A[i] EXCEPT ![1] = Num(<< 450, 250, 248, 246, 46 >>[i])]]

\* the sources varied
ProfVars == { "ne", "nd", "ti", "q", "rmin", "rmaj" }

\* derived Variables the CDF may hold values for
StaleVars == { "zeff", "btor", "bpol", "vtor", "gte" }

BaseNulls == { "vpolavg", "vpolh" }

Scenarios ==
    { [nulls |-> S, var |-> "", prof |-> "", stale |-> FALSE] : S \in SUBSET VpolSources }
    \cup { [nulls |-> BaseNulls \cup { n }, var |-> "", prof |-> "", stale |-> FALSE] :
             n \in Sources \ VpolSources }
    \cup { [nulls |-> BaseNulls, var |-> n, prof |-> f, stale |-> FALSE] :
             n \in ProfVars, f \in Profiles }
    \cup { [nulls |-> BaseNulls, var |-> "", prof |-> "", stale |-> TRUE] }
    \cup { [nulls |-> BaseNulls, var |-> "elong", prof |-> "oblate", stale |-> FALSE],
           [nulls |-> BaseNulls, var |-> "ne", prof |-> "ledge", stale |-> FALSE] }

\* the order in which the input arrays are laid out
InputOrder == << "nd", "ne", "nf", "nz", "zimp", "aimp", "rmin", "rmaj", "te", "ti",
                 "omega", "bz", "q", "arat", "elong", "x", "xb", "time",
                 "vpolavg", "vpold", "vpolh",
                 "zeff", "btor", "bpol", "vtor", "gte" >>

Present(s, n) ==
    \/ n \in Sources \ s.nulls
    \/ s.stale /\ n \in StaleVars

PresentSeq(s) == SelectSeq(InputOrder, LAMBDA n : Present(s, n))

InputArr(s, n) == IF n = s.var THEN ProfArr(s.prof, BaseArr(n)) ELSE BaseArr(n)

InputHeap(s) == [a \in 1..Len(PresentSeq(s)) |-> InputArr(s, PresentSeq(s)[a])]

InputUnits(n) ==
    CASE n \in { "ne", "nd", "nf", "nz" } -> "M**-3"
      [] n \in { "te", "ti" } -> "keV"
      [] n = "bz" -> "T"
      [] OTHER -> ""

InputContainer(s) ==
    [ vals |-> [n \in Names |->
                  IF Present(s, n)
                  THEN CHOOSE a \in 1..Len(PresentSeq(s)) : PresentSeq(s)[a] = n
                  ELSE 0],
      units |-> [n \in Names |-> InputUnits(n)],
      dims |-> [n \in Names |-> IF n \in Sources THEN "XBO,TIME" ELSE ""] ]

NoError == [type |-> "", where |-> "", names |-> {}]

\* the caller holds the containers cs, with arrays h, and calls
\* calculate_inputs(cs[1]) under the options sm, ro
Start(cs, h, sm, ro) ==
        /\ heap = h
        /\ containers = cs
        /\ cdf_vars = 1
        /\ cdf0 = DeepValue(cs, h, 1)
        /\ vars = 0
        /\ drmin = << >>
        /\ pc = 0
        /\ sub = "call"
        /\ opts = [apply_smoothing |-> sm, reject_outliers |-> ro, input_points |-> NR]
        /\ trace = << >>
        /\ err = NoError
        /\ ret = 0
        /\ run = 1
        /\ out1 = << >>
        /\ touched = {}

Init ==
    \E s \in Scenarios, sm \in BOOLEAN, ro \in BOOLEAN :
        /\ Start(<< InputContainer(s) >>, InputHeap(s), sm, ro)
        /\ CtlIdle /\ ModIdle /\ PlotIdle

\* the containers of the two-call runs
Scenarios2 ==
    { [nulls |-> S, var |-> "", prof |-> "", stale |-> FALSE] :
        S \in { BaseNulls, VpolSources } }
    \cup { [nulls |-> BaseNulls, var |-> "ne", prof |-> "steep", stale |-> FALSE] }
    \cup { [nulls |-> BaseNulls, var |-> "", prof |-> "", stale |-> TRUE] }

\* the caller makes a second deep copy of its container before the first call
Init2 ==
    \E s \in Scenarios2, sm \in BOOLEAN, ro \in BOOLEAN :
        LET d == DeepCopy(<< InputContainer(s) >>, InputHeap(s), 1)
        IN  /\ Start(d.containers, d.heap, sm, ro)
            /\ CtlIdle /\ ModIdle /\ PlotIdle

---------------------------------------------------------------------------
(* calculate_inputs, statement by statement *)

\* calculate_variable with set_minvalue called before apply_smoothing
MinValueFirst == << "formula", "minvalue", "smooth", "outliers", "nan" >>

\* calculate_gradient with clamp_gradient called after set_minvalue
ClampAfterMinValue == << "formula", "smooth", "minvalue", "clamp", "outliers", "nan" >>

\* calculate_variable with remove_nan called right after the formula
NanRemovedFirst == << "formula", "nan", "smooth", "minvalue", "outliers" >>

\* the statements of calculate_variable and of calculate_gradient, in order
CVOrder == << "formula", "smooth", "minvalue", "outliers", "nan" >>
CGOrder == << "formula", "smooth", "clamp", "minvalue", "outliers", "nan" >>

OrderOf(kind) == IF kind = "grad" THEN CGOrder ELSE CVOrder

\* the position after position s of a stage ("done" after the last)
NextSub(order, s) ==
    LET k == CHOOSE i \in 1..Len(order) : order[i] = s
    IN  IF k = Len(order) THEN "done" ELSE order[k + 1]

StartOf(k) ==
    IF k > NStages THEN "return"
    ELSE IF Stages[k].kind = "drmin" THEN "drmin"
    ELSE "formula"

\* a call: the stage it belongs to, what is called, on which Variable, with
\* which argument (0 when it takes none)
Ev(op, n, arg) == [stage |-> pc, op |-> op, var |-> n, arg |-> arg]

\* control moves past position `sub` of the current stage
Continue ==
    LET nx == NextSub(OrderOf(Stages[pc].kind), sub)
    IN  IF nx = "done"
        THEN pc' = pc + 1 /\ sub' = StartOf(pc + 1)
        ELSE pc' = pc /\ sub' = nx

\* the run ends with an exception
Raise(type, where) ==
    /\ err' = [type |-> type, where |-> where, names |-> {}]
    /\ sub' = "raised"
    /\ UNCHANGED << ctl_vars, mod_vars, plot_vars,
                    heap, containers, cdf_vars, cdf0, vars, drmin, pc, opts, ret, run,
                    out1, touched >>

\* vars = copy.deepcopy(cdf_vars)
Enter ==
    /\ sub = "call"
    /\ LET d == DeepCopy(containers, heap, cdf_vars)
       IN  /\ containers' = d.containers
           /\ heap' = d.heap
           /\ vars' = d.id
    /\ pc' = 1
    /\ sub' = StartOf(1)
    /\ trace' = Append(trace, Ev("deepcopy", "", 0))
    /\ UNCHANGED << ctl_vars, mod_vars, plot_vars,
                    cdf_vars, cdf0, drmin, opts, err, ret, run, out1, touched >>

InStage(kind, s) == pc \in 1..NStages /\ Stages[pc].kind = kind /\ sub = s

\* a post-processing call on Variable n of vars: its values become A
Method(op, arg, n, A) ==
    LET r == Rebind(containers, heap, vars, n, A)
    IN  /\ containers' = r.containers
        /\ heap' = r.heap
        /\ trace' = Append(trace, Ev(op, n, arg))

Skip == UNCHANGED << containers, heap, trace >>

Rest == UNCHANGED << ctl_vars, mod_vars, plot_vars,
                    cdf_vars, cdf0, vars, drmin, opts, err, ret, run, out1, touched >>

Cur(n) == Val(heap, containers[vars], n)

\* tau handing its result to the Variable rho
TauIntoRho(f) == IF f = "tau" THEN "rho" ELSE f

\* the Variable formula f hands its result to: vars.f.set_variable(...)
Target(f) == f

\* var_function(vars)
CV_Formula ==
    /\ InStage("var", "formula")
    /\ LET f == Stages[pc].name
           c == containers[vars]
       IN  IF \E n \in Uses(f) : IsNone(c, n)
           THEN /\ Raise(RaisedBy(f), f)
                /\ trace' = Append(trace, Ev("formula", f, 0))
           ELSE /\ LET units == IF PassesUnits(f) THEN UnitsOf(f, c) ELSE c.units[f]
                       dims == IF PassesUnits(f) THEN "XBO,TIME" ELSE c.dims[f]
                       r == IF f = "vpol" /\ vpolPick(c) # ""
                            THEN SetAlias(containers, heap, vars, Target(f), vpolPick(c),
                                          units, dims)
                            ELSE SetNew(containers, heap, vars, Target(f),
                                        Formula(f, heap, c), units, dims)
                   IN  /\ containers' = r.containers
                       /\ heap' = r.heap
                /\ trace' = Append(trace, Ev("formula", f, 0))
                /\ Continue
                /\ Rest

\* if Options.instance.apply_smoothing: getattr(vars, var_name).apply_smoothing(...)
CV_Smooth ==
    /\ InStage("var", "smooth")
    /\ LET n == Stages[pc].name
       IN  IF opts.apply_smoothing
           THEN Method("apply_smoothing", opts.input_points, n,
                       apply_smoothing(n, Cur(n), opts.input_points))
           ELSE Skip
    /\ Continue
    /\ Rest

\* getattr(vars, var_name).set_minvalue()
CV_MinValue ==
    /\ InStage("var", "minvalue")
    /\ LET n == Stages[pc].name IN Method("set_minvalue", 0, n, set_minvalue(n, Cur(n)))
    /\ Continue
    /\ Rest

\* if Options.instance.reject_outliers: getattr(vars, var_name).reject_outliers()
CV_Outliers ==
    /\ InStage("var", "outliers")
    /\ LET n == Stages[pc].name
       IN  IF opts.reject_outliers
           THEN Method("reject_outliers", 0, n, reject_outliers(Cur(n)))
           ELSE Skip
    /\ Continue
    /\ Rest

\* getattr(vars, var_name).remove_nan()
CV_RemoveNan ==
    /\ InStage("var", "nan")
    /\ LET n == Stages[pc].name IN Method("remove_nan", 0, n, remove_nan(Cur(n)))
    /\ Continue
    /\ Rest

\* drmin = np.diff(vars.rmin.values, axis=0)
ComputeDrmin ==
    /\ InStage("drmin", "drmin")
    /\ IF IsNone(containers[vars], "rmin")
       THEN /\ Raise("ValueError", "calculate_inputs")
            /\ trace' = Append(trace, Ev("diff", "rmin", 0))
       ELSE /\ drmin' = Diff(Cur("rmin"))
            /\ trace' = Append(trace, Ev("diff", "rmin", 0))
            /\ pc' = pc + 1
            /\ sub' = StartOf(pc + 1)
            /\ UNCHANGED << ctl_vars, mod_vars, plot_vars,
                    heap, containers, cdf_vars, cdf0, vars, opts, err, ret, run,
                            out1, touched >>

\* calculate_gradient, up to gvar.set_variable(gradient_values, '', ['XBO', 'TIME'])
CG_Gradient ==
    /\ InStage("grad", "formula")
    /\ LET g == Stages[pc].name
           src == Stages[pc].src
           c == containers[vars]
       IN  IF \E n \in GradReads(src) : IsNone(c, n)
           THEN /\ Raise(GradRaised(c, src), "calculate_gradient")
                /\ trace' = Append(trace, Ev("gradient", g, 0))
           ELSE /\ LET r == SetNew(containers, heap, vars, g,
                                   gradient_values(heap, c, src,
                                       SignedDrmin(drmin, Stages[pc].sign)),
                                   "", "XBO,TIME")
                   IN  /\ containers' = r.containers
                       /\ heap' = r.heap
                /\ trace' = Append(trace, Ev("gradient", g, SignedDrmin(drmin, Stages[pc].sign)))
                /\ Continue
                /\ Rest

\* if Options.instance.apply_smoothing: gvar.apply_smoothing(...)
CG_Smooth ==
    /\ InStage("grad", "smooth")
    /\ LET n == Stages[pc].name
       IN  IF opts.apply_smoothing
           THEN Method("apply_smoothing", opts.input_points, n,
                       apply_smoothing(n, Cur(n), opts.input_points))
           ELSE Skip
    /\ Continue
    /\ Rest

\* gvar.clamp_gradient(100)
CG_Clamp ==
    /\ InStage("grad", "clamp")
    /\ LET n == Stages[pc].name
       IN  Method("clamp_gradient", GradientClamp, n,
                  clamp_gradient(Cur(n), Num(GradientClamp)))
    /\ Continue
    /\ Rest

\* gvar.set_minvalue()
CG_MinValue ==
    /\ InStage("grad", "minvalue")
    /\ LET n == Stages[pc].name IN Method("set_minvalue", 0, n, set_minvalue(n, Cur(n)))
    /\ Continue
    /\ Rest

\* if Options.instance.reject_outliers: gvar.reject_outliers()
CG_Outliers ==
    /\ InStage("grad", "outliers")
    /\ LET n == Stages[pc].name
       IN  IF opts.reject_outliers
           THEN Method("reject_outliers", 0, n, reject_outliers(Cur(n)))
           ELSE Skip
    /\ Continue
    /\ Rest

\* gvar.remove_nan()
CG_RemoveNan ==
    /\ InStage("grad", "nan")
    /\ LET n == Stages[pc].name IN Method("remove_nan", 0, n, remove_nan(Cur(n)))
    /\ Continue
    /\ Rest

\* return vars
Return ==
    /\ sub = "return"
    /\ ret' = vars
    /\ sub' = "returned"
    /\ trace' = Append(trace, Ev("return", "", 0))
    /\ out1' = IF run = 1 THEN DeepValue(containers, heap, vars) ELSE out1
    /\ UNCHANGED << ctl_vars, mod_vars, plot_vars,
                    heap, containers, cdf_vars, cdf0, vars, drmin, pc, opts, err, run,
                    touched >>

---------------------------------------------------------------------------
(* The caller, after calculate_inputs has returned *)

\* the Variables the caller writes into
MutVars == { "ne", "vpol", "gne" }

\* values[0, 0] += 1, in place
Bump(A) == [A EXCEPT ![1][1] = Add(A[1][1], Num(1))]

\* the caller writes into an array of the container it got back
MutateOutput ==
    /\ sub = "returned"
    /\ run = 1
    /\ "output" \notin touched
    /\ \E n \in MutVars :
          /\ containers[ret].vals[n] # 0
          /\ heap' = [heap EXCEPT ![containers[ret].vals[n]] = Bump(@)]
    /\ touched' = touched \cup { "output" }
    /\ UNCHANGED << ctl_vars, mod_vars, plot_vars,
                    containers, cdf_vars, cdf0, vars, drmin, pc, sub, opts, trace, err,
                    ret, run, out1 >>

\* the caller writes into an array of the container it passed in
MutateInput ==
    /\ sub = "returned"
    /\ run = 1
    /\ "input" \notin touched
    /\ containers[cdf_vars].vals["ne"] # 0
    /\ heap' = [heap EXCEPT ![containers[cdf_vars].vals["ne"]] = Bump(@)]
    /\ touched' = touched \cup { "input" }
    /\ UNCHANGED << ctl_vars, mod_vars, plot_vars,
                    containers, cdf_vars, cdf0, vars, drmin, pc, sub, opts, trace, err,
                    ret, run, out1 >>

\* the caller calls calculate_inputs again, with its second copy of the input
SecondCall ==
    /\ sub = "returned"
    /\ run = 1
    /\ run' = 2
    /\ cdf_vars' = 2
    /\ cdf0' = DeepValue(containers, heap, 2)
    /\ vars' = 0
    /\ drmin' = << >>
    /\ pc' = 0
    /\ sub' = "call"
    /\ trace' = << >>
    /\ ret' = 0
    /\ UNCHANGED << ctl_vars, mod_vars, plot_vars,
                    heap, containers, opts, err, out1, touched >>

Next ==
    \/ Enter
    \/ CV_Formula
    \/ CV_Smooth
    \/ CV_MinValue
    \/ CV_Outliers
    \/ CV_RemoveNan
    \/ ComputeDrmin
    \/ CG_Gradient
    \/ CG_Smooth
    \/ CG_Clamp
    \/ CG_MinValue
    \/ CG_Outliers
    \/ CG_RemoveNan
    \/ Return
    \/ MutateOutput

\* one call of calculate_inputs on any of the containers
Spec == Init /\ [][Next]_all_vars

Next2 ==
    \/ Next
    \/ MutateInput
    \/ SecondCall

\* two calls, each on its own deep copy of one container
SpecTwoRuns == Init2 /\ [][Next2]_all_vars

---------------------------------------------------------------------------
(* Properties *)

\* the call made last
Last == trace[Len(trace)]

\* the addresses of the arrays container id refers to
Addrs(id) == { containers[id].vals[n] : n \in Names } \ { 0 }

\* the calls of stage k, in the order they were made
StageCalls(k) == SelectSeq(trace, LAMBDA e : e.stage = k)

\* s is an initial part of t
IsPrefix(s, t) == Len(s) <= Len(t) /\ \A i \in 1..Len(s) : s[i] = t[i]

\* stage k has been executed to its end
Completed(k) == vars # 0 /\ pc > k

\* C1: calculate_inputs never mutates or aliases its argument.  Throughout the
\* call and after it, whatever the caller then writes into the returned
\* container, every Variable of the caller's container (values, units,
\* dimensions) is what it was when the call was made; the returned container is
\* another object and shares no array with the caller's.
C1_InputUntouched ==
    /\ DeepValue(containers, heap, cdf_vars) = cdf0
    /\ ret # 0 => /\ ret # cdf_vars
                  /\ Addrs(ret) \cap Addrs(cdf_vars) = {}

\* the call has returned and the caller has written into the returned container
C1_Witness == sub = "returned" /\ ret # 0 /\ "output" \in touched

\* Variable n has been computed and post-processed before the call made last
Processed(n) ==
    \E j \in 1..(Len(trace) - 1) :
        /\ trace[j].op = "remove_nan"
        /\ trace[j].var = n
        /\ \E i \in 1..(j - 1) :
              /\ trace[i].op \in { "formula", "gradient" }
              /\ trace[i].var = n
              /\ trace[i].stage = trace[j].stage

\* the Variables the stage of the call made last reads
LastReads ==
    IF Stages[Last.stage].kind = "grad"
    THEN GradReads(Stages[Last.stage].src)
    ELSE Reads(Last.var)

\* C2: the stage order is a valid topological order.  Whenever a formula or a
\* gradient computation is executed, every derived Variable it reads has been
\* computed and post-processed (down to remove_nan) earlier in the same run.
C2_TopologicalOrder ==
    (trace # << >> /\ Last.op \in { "formula", "gradient" })
        => \A n \in LastReads \cap Derived : Processed(n)

\* vpar, which reads bpol, btor, vpol and vtor, has just been executed
C2_Witness ==
    /\ trace # << >>
    /\ Last.op = "formula"
    /\ Last.var = "vpar"
    /\ sub # "raised"
    /\ { "bpol", "btor", "vpol", "vtor" } \subseteq Reads("vpar")

\* the place of formula f in the listing `order`
Place(order, f) == CHOOSE i \in 1..Len(order) : order[i] = f

\* the formulas section 4.1 lists before the gradients
Listed == { Section41Order[i] : i \in 1..Len(Section41Order) }

\* a formula of the listing has just been executed
ListedFormulaRan == trace # << >> /\ Last.op = "formula" /\ Last.var \in Listed

\* the formulas of the listing executed before the call made last
RanBefore ==
    { trace[k].var : k \in { i \in 1..(Len(trace) - 1) :
                               trace[i].op = "formula" /\ trace[i].var \in Listed } }

\* C3 as stated: of any two formulas of section 4.1's listing, the one listed
\* earlier is executed earlier.
C3_ListedOrder ==
    ListedFormulaRan
        => \A f \in RanBefore : Place(Section41Order, f) < Place(Section41Order, Last.var)

\* a is to be executed before b: as listed, except that btor and bpol come
\* before vtor, vpar and zeff
Precedes(a, b) ==
    IF a \in { "btor", "bpol" } /\ b \in { "vtor", "vpar", "zeff" } THEN TRUE
    ELSE IF b \in { "btor", "bpol" } /\ a \in { "vtor", "vpar", "zeff" } THEN FALSE
    ELSE Place(Section41Order, a) < Place(Section41Order, b)

\* C3, amended: of any two formulas of section 4.1's listing, the one listed
\* earlier is executed earlier, except that btor and bpol are executed before
\* vtor, vpar and zeff (and after tau); a run that returns has executed them all.
C3_OrderOfTheCode ==
    /\ ListedFormulaRan => \A f \in RanBefore : Precedes(f, Last.var)
    /\ ListedFormulaRan => \A f \in Listed : Precedes(f, Last.var) => f \in RanBefore
    /\ sub = "returned" => \A f \in Listed : \E k \in 1..Len(trace) :
                               trace[k].op = "formula" /\ trace[k].var = f

\* vtor has just been executed, after btor and bpol
C3_Witness ==
    /\ ListedFormulaRan
    /\ Last.var = "vtor"
    /\ { "btor", "bpol" } \subseteq RanBefore

\* the names of the calls of a sequence of calls
Ops(calls) == [i \in 1..Len(calls) |-> calls[i].op]

\* the calls calculate_variable is to make, under the options o
ExpectedCV(o) ==
    << "formula" >>
    \o (IF o.apply_smoothing THEN << "apply_smoothing" >> ELSE << >>)
    \o << "set_minvalue" >>
    \o (IF o.reject_outliers THEN << "reject_outliers" >> ELSE << >>)
    \o << "remove_nan" >>

\* the calls of stage k are all on the Variable of the stage, smoothing is
\* called with input_points, and no call of another stage comes between them
OnItsVariable(k) ==
    /\ \A i \in 1..Len(trace) :
          trace[i].stage = k =>
              /\ trace[i].var = Stages[k].name
              /\ trace[i].op = "apply_smoothing" => trace[i].arg = opts.input_points
              /\ i > 1 => trace[i - 1].stage \in { 0, k - 1, k }

\* C4: every formula run through calculate_variable is followed, before the
\* next stage starts, by exactly apply_smoothing(input_points) iff
\* apply_smoothing is on, set_minvalue, reject_outliers iff reject_outliers is
\* on, remove_nan, in this order, all on the Variable named after the formula.
C4_VariablePostProcessing ==
    /\ (pc \in 1..NStages /\ Stages[pc].kind = "var" /\ vars # 0)
          => /\ IsPrefix(Ops(StageCalls(pc)), ExpectedCV(opts))
             /\ OnItsVariable(pc)
    /\ (pc \in 2..(NStages + 1) /\ Stages[pc - 1].kind = "var" /\ vars # 0)
          => /\ Ops(StageCalls(pc - 1)) = ExpectedCV(opts)
             /\ OnItsVariable(pc - 1)

\* a formula has been post-processed with both options on
C4_Witness ==
    /\ Completed(Place(PreGradient, "zeff"))
    /\ opts.apply_smoothing
    /\ opts.reject_outliers
    /\ Len(StageCalls(Place(PreGradient, "zeff"))) = 5

\* the calls calculate_gradient is to make, under the options o
ExpectedCG(o) ==
    << "gradient" >>
    \o (IF o.apply_smoothing THEN << "apply_smoothing" >> ELSE << >>)
    \o << "clamp_gradient" >>
    \o << "set_minvalue" >>
    \o (IF o.reject_outliers THEN << "reject_outliers" >> ELSE << >>)
    \o << "remove_nan" >>

\* the clamp of stage k is to magnitude 100
ClampedTo100(k) ==
    \A i \in 1..Len(trace) :
        (trace[i].stage = k /\ trace[i].op = "clamp_gradient") => trace[i].arg = 100

\* C5: every gradient stored by calculate_gradient is post-processed by
\* smoothing (only if apply_smoothing is on), clamp_gradient(100), set_minvalue,
\* reject_outliers (only if reject_outliers is on), remove_nan, in this order.
C5_GradientPostProcessing ==
    /\ (pc \in 1..NStages /\ Stages[pc].kind = "grad" /\ vars # 0)
          => /\ IsPrefix(Ops(StageCalls(pc)), ExpectedCG(opts))
             /\ OnItsVariable(pc)
             /\ ClampedTo100(pc)
    /\ (pc \in 2..(NStages + 1) /\ Stages[pc - 1].kind = "grad" /\ vars # 0)
          => /\ Ops(StageCalls(pc - 1)) = ExpectedCG(opts)
             /\ OnItsVariable(pc - 1)
             /\ ClampedTo100(pc - 1)

\* a gradient has been post-processed with both options on
C5_Witness ==
    /\ pc \in 2..(NStages + 1)
    /\ vars # 0
    /\ Stages[pc - 1].name = "gte"
    /\ opts.apply_smoothing
    /\ opts.reject_outliers
    /\ Len(StageCalls(pc - 1)) = 6

\* the stages that store a gradient
GradStages == { k \in 1..NStages : Stages[k].kind = "grad" }

\* C6: once calculate_gradient has stored a gradient, every element of it is a
\* number of absolute value at most 100, whatever the inputs (steep, zero or
\* NaN source values included) and whatever the two options.
C6_GradientBounded ==
    \A k \in GradStages :
        (Completed(k) /\ touched = {})
            => \A a \in Elems(Cur(Stages[k].name)) : IsFinite(a) /\ Abs(a) <= Num(100)

\* a stored gradient has an element that the clamp brought to magnitude 100
C6_Witness ==
    \E k \in GradStages :
        /\ Completed(k)
        /\ touched = {}
        /\ \E a \in Elems(Cur(Stages[k].name)) : Abs(a) = Num(100)

\* column j of A holds one finite non-zero value at every radial index
ConstantColumn(A, j) ==
    /\ IsFinite(A[1][j])
    /\ A[1][j] # 0
    /\ \A i \in 1..Len(A) : A[i][j] = A[1][j]

\* C7: if the source of a gradient has the same non-zero value at every radial
\* index of a time column, the gradient calculate_gradient stores for that time
\* column is 0 at every radial index of the boundary grid.
C7_ConstantSourceZeroGradient ==
    \A k \in GradStages :
        (Completed(k) /\ touched = {})
            => \A j \in 1..NT :
                   ConstantColumn(Cur(Stages[k].src), j)
                       => \A i \in 1..NR : Cur(Stages[k].name)[i][j] = 0

\* the gradient of a source that is constant (7) in its first time column only
\* has been stored, with smoothing on
C7_Witness ==
    /\ Completed(Len(PreGradient) + 2)
    /\ Stages[Len(PreGradient) + 2].src = "ne"
    /\ opts.apply_smoothing
    /\ ConstantColumn(Cur("ne"), 1)
    /\ ~ConstantColumn(Cur("ne"), 2)
    /\ \E i \in 1..NR : Cur("gne")[i][2] # 0

\* the sources every run needs
Required == Sources \ VpolSources

\* every number of the array A of Variable n is finite (time is 1-D)
AllFinite(n, A) ==
    IF n = "time" THEN \A i \in 1..Len(A) : IsFinite(A[i])
    ELSE \A a \in Elems(A) : IsFinite(a)

\* the container the caller passed has every required source, all finite
Complete ==
    \A n \in Required : cdf0.vals[n] # << >> /\ AllFinite(n, cdf0.vals[n])

\* the run has returned a container in which every derived Variable has values
ReturnedAll ==
    /\ sub = "returned"
    /\ ret # 0
    /\ \A n \in Derived : ~IsNone(containers[ret], n)

\* how far the call has got: the stage, and the statement within the stage
Position ==
    8 * pc + (CASE sub = "call" -> 0
                [] sub \in { "formula", "drmin", "return" } -> 1
                [] sub = "smooth" -> 2
                [] sub = "clamp" -> 3
                [] sub = "minvalue" -> 4
                [] sub = "outliers" -> 5
                [] sub = "nan" -> 6
                [] OTHER -> 7)

\* control stands at a statement of calculate_inputs
AtStatement ==
    \/ sub \in { "call", "return" }
    \/ /\ pc \in 1..NStages
       /\ IF Stages[pc].kind = "drmin" THEN sub = "drmin"
          ELSE \E i \in 1..Len(OrderOf(Stages[pc].kind)) : OrderOf(Stages[pc].kind)[i] = sub

\* C8: run on a container in which every required source is present and finite,
\* calculate_inputs terminates and returns a container in which every derived
\* Variable (vpol also when none of its three sources exists, and every
\* gradient) has values: no exception is raised, until the return there is
\* always a next statement and executing it moves the call forward through its
\* finitely many statements, and what is returned has all the derived values.
C8_CompleteInputReturnsAll ==
    /\ [](Complete => /\ sub # "raised"
                      /\ sub = "returned" => ReturnedAll
                      /\ sub # "returned" => (AtStatement /\ Position < 8 * (NStages + 2)))
    /\ [][(Complete /\ sub # "returned") => Position' > Position]_all_vars

\* such a run has returned, vpol having had none of its three sources
C8_Witness ==
    /\ Complete
    /\ ReturnedAll
    /\ \A n \in VpolSources : cdf0.vals[n] = << >>
    /\ AllFinite("vpol", Cur("vpol"))

\* the required sources that are null in the container the caller passed
NullSources == { n \in Required : cdf0.vals[n] = << >> }

\* C9 as stated: a run on a container with a null required source ends with a
\* MissingInputError that names that source; nothing is returned.
C9_MissingInputError ==
    NullSources # {}
        => /\ sub # "returned"
           /\ ret = 0
           /\ sub = "raised" => /\ err.type = "MissingInputError"
                                /\ err.names \cap NullSources # {}

\* what does hold of such a run: once an exception is raised nothing more is
\* executed and nothing is returned
C9_AbortsWithoutOutput ==
    sub = "raised" => /\ ret = 0
                      /\ out1 = << >>
                      /\ ~ENABLED Next
                      /\ Last.stage = pc

---------------------------------------------------------------------------
(* get_calculated_vars, lines 522-524 *)

\* the functions of the module calculations (inspect.isfunction holds of them)
ModuleFunctions ==
    Formulas \cup { "calculate_gradient", "calculate_inputs", "calculate_variable",
                    "get_calculated_vars" }

\* a function's name, character by character
Spelling(n) ==
    CASE n = "ahyd" -> << "a", "h", "y", "d" >>
      [] n = "aimass" -> << "a", "i", "m", "a", "s", "s" >>
      [] n = "alphamhd" -> << "a", "l", "p", "h", "a", "m", "h", "d" >>
      [] n = "beta" -> << "b", "e", "t", "a" >>
      [] n = "betae" -> << "b", "e", "t", "a", "e" >>
      [] n = "bpol" -> << "b", "p", "o", "l" >>
      [] n = "btor" -> << "b", "t", "o", "r" >>
      [] n = "calculate_gradient" -> << "c", "a", "l", "c", "u", "l", "a", "t", "e", "_", "g", "r", "a", "d", "i", "e", "n", "t" >>
      [] n = "calculate_inputs" -> << "c", "a", "l", "c", "u", "l", "a", "t", "e", "_", "i", "n", "p", "u", "t", "s" >>
      [] n = "calculate_variable" -> << "c", "a", "l", "c", "u", "l", "a", "t", "e", "_", "v", "a", "r", "i", "a", "b", "l", "e" >>
      [] n = "eps" -> << "e", "p", "s" >>
      [] n = "etae" -> << "e", "t", "a", "e" >>
      [] n = "etai" -> << "e", "t", "a", "i" >>
      [] n = "etaid" -> << "e", "t", "a", "i", "d" >>
      [] n = "etaie" -> << "e", "t", "a", "i", "e" >>
      [] n = "etaih" -> << "e", "t", "a", "i", "h" >>
      [] n = "gave" -> << "g", "a", "v", "e" >>
      [] n = "get_calculated_vars" -> << "g", "e", "t", "_", "c", "a", "l", "c", "u", "l", "a", "t", "e", "d", "_", "v", "a", "r", "s" >>
      [] n = "gmax" -> << "g", "m", "a", "x" >>
      [] n = "gyrfi" -> << "g", "y", "r", "f", "i" >>
      [] n = "loge" -> << "l", "o", "g", "e" >>
      [] n = "nh" -> << "n", "h" >>
      [] n = "nh0" -> << "n", "h", "0" >>
      [] n = "ni" -> << "n", "i" >>
      [] n = "nuei" -> << "n", "u", "e", "i" >>
      [] n = "nuei2" -> << "n", "u", "e", "i", "2" >>
      [] n = "nuste" -> << "n", "u", "s", "t", "e" >>
      [] n = "nusti" -> << "n", "u", "s", "t", "i" >>
      [] n = "p" -> << "p" >>
      [] n = "rho" -> << "r", "h", "o" >>
      [] n = "shat" -> << "s", "h", "a", "t" >>
      [] n = "shear" -> << "s", "h", "e", "a", "r" >>
      [] n = "tau" -> << "t", "a", "u" >>
      [] n = "test" -> << "t", "e", "s", "t" >>
      [] n = "test2" -> << "t", "e", "s", "t", "2" >>
      [] n = "vpar" -> << "v", "p", "a", "r" >>
      [] n = "vpol" -> << "v", "p", "o", "l" >>
      [] n = "vthe" -> << "v", "t", "h", "e" >>
      [] n = "vthi" -> << "v", "t", "h", "i" >>
      [] n = "vtor" -> << "v", "t", "o", "r" >>
      [] n = "zeff" -> << "z", "e", "f", "f" >>

\* t in s, for two strings given character by character
Contains(s, t) ==
    \E i \in 1..(Len(s) - Len(t) + 1) : SubSeq(s, i, i + Len(t) - 1) = t

\* the names get_calculated_vars returns: those without 'calculate' in them
\* (getmembers lists them by name; the order plays no part here)
get_calculated_vars ==
    { n \in ModuleFunctions :
        ~Contains(Spelling(n), << "c", "a", "l", "c", "u", "l", "a", "t", "e" >>) }

---------------------------------------------------------------------------
(* Properties of the second group of claims *)

\* C11: the list get_calculated_vars returns holds neither 'test' nor 'test2':
\* the filter on names containing 'calculate', which drops the orchestration
\* helpers, keeps the two self-test names out as well, so that no name of the
\* list that is a Variable of the caller's container is a self-test name.
C11_SelfTestsExcluded ==
    LET listed == get_calculated_vars \cap DOMAIN containers[cdf_vars].vals
    IN  /\ "calculate_inputs" \notin get_calculated_vars
        /\ "test" \notin listed
        /\ "test2" \notin listed

\* the variable whose formula has just stored its result
JustStored(n) ==
    /\ Len(trace) > 0
    /\ Last.op \in { "formula", "gradient" }
    /\ Last.var = n
    /\ sub # "raised"
    /\ vars # 0

\* every element of the two-dimensional array A is a number that is at least 0
NonNegativeNumbers(A) ==
    \A i \in 1..Len(A) : \A j \in 1..Len(A[i]) : IsFinite(A[i][j]) /\ A[i][j] >= 0

\* C12: after the shat formula has run, every element of the shat it stored is
\* a number that is at least 0, whatever the finite shear and elong are; where
\* the radicand 2*shear - 1 + (elong*(shear - 1))^2 is negative it stored 0.
C12_ShatStoredNonNegative ==
    JustStored("shat") /\ AllFinite("shear", Cur("shear")) /\ AllFinite("elong", Cur("elong"))
        => NonNegativeNumbers(Cur("shat"))

\* the densities the caller passed are all there, finite and positive
PositiveDensities ==
    \A n \in { "ne", "nd", "nf", "nz" } :
        /\ cdf0.vals[n] # << >>
        /\ \A a \in Elems(cdf0.vals[n]) : IsFinite(a) /\ a > 0

\* Variable n of the working container has values
Populated(n) == vars # 0 /\ ~IsNone(containers[vars], n)

\* the arrays A and B + C agree element by element
IsSum(A, B, C) ==
    /\ Shape(A) = Shape(B)
    /\ Shape(A) = Shape(C)
    /\ \A i \in 1..Len(A) : \A j \in 1..Len(A[i]) : A[i][j] = Add(B[i][j], C[i][j])

\* C13: from the moment nh is populated on, the returned container included,
\* nh equals nh0 + nd element by element, for positive density arrays.
C13_NhIsSumAlways ==
    PositiveDensities /\ Populated("nh") => IsSum(Cur("nh"), Cur("nh0"), Cur("nd"))

\* neither smoothing nor outlier rejection is switched on
PlainOptions == ~opts.apply_smoothing /\ ~opts.reject_outliers

\* C13 (amended): nh equals nh0 + nd element by element when the nh formula
\* stores it, and, smoothing and outlier rejection being off, in every later
\* state of the run and in the returned container, for positive density arrays.
C13_NhIsSumUnlessReshaped ==
    /\ JustStored("nh") => IsSum(Cur("nh"), Cur("nh0"), Cur("nd"))
    /\ PositiveDensities /\ PlainOptions /\ Populated("nh")
         => /\ IsSum(Cur("nh"), Cur("nh0"), Cur("nd"))
            /\ sub = "returned" /\ run = 1 /\ ret # 0 =>
                 IsSum(Val(heap, containers[ret], "nh"), Val(heap, containers[ret], "nh0"),
                       Val(heap, containers[ret], "nd"))

C13_Witness ==
    /\ PositiveDensities /\ PlainOptions
    /\ sub = "returned" /\ ret # 0
    /\ \E i \in 1..NR : Val(heap, containers[ret], "nh0")[i][1] = MinFloor
    /\ IsSum(Val(heap, containers[ret], "nh"), Val(heap, containers[ret], "nh0"),
             Val(heap, containers[ret], "nd"))

\* the arrays A and (B + C) + D agree element by element
IsSum3(A, B, C, D) ==
    /\ Shape(A) = Shape(B)
    /\ Shape(A) = Shape(C)
    /\ Shape(A) = Shape(D)
    /\ \A i \in 1..Len(A) : \A j \in 1..Len(A[i]) :
          A[i][j] = Add(Add(B[i][j], C[i][j]), D[i][j])

\* ni = nd + nz + nh0 in container id
NiIsSum(id) ==
    IsSum3(Val(heap, containers[id], "ni"), Val(heap, containers[id], "nd"),
           Val(heap, containers[id], "nz"), Val(heap, containers[id], "nh0"))

\* C14: from the moment ni is populated on, the returned container included,
\* ni equals nd + nz + nh0 element by element.
C14_NiIsSumAlways ==
    Populated("ni") => NiIsSum(vars)

\* C14 (amended): ni equals nd + nz + nh0 element by element when the ni formula
\* stores it, and, the densities passed being positive and smoothing and
\* outlier rejection being off, in every later state of the run and in the
\* returned container.
C14_NiIsSumUnlessReshaped ==
    /\ JustStored("ni") => NiIsSum(vars)
    /\ PositiveDensities /\ PlainOptions /\ Populated("ni")
         => /\ NiIsSum(vars)
            /\ sub = "returned" /\ run = 1 /\ ret # 0 => NiIsSum(ret)

C14_Witness ==
    /\ PositiveDensities /\ PlainOptions
    /\ sub = "returned" /\ ret # 0
    /\ \E i \in 1..NR : Val(heap, containers[ret], "nh0")[i][1] # BaseArr("ne")[i][1]
    /\ cdf0.vals["ne"] # BaseArr("ne")
    /\ NiIsSum(ret)

\* the caller's container has values for source n
Given(n) == cdf0.vals[n] # << >>

\* C15: the vpol formula stores the values of the first of vpolavg, vpold,
\* vpolh that is not null, in each of the eight combinations of null and
\* non-null sources; when all three are null it stores zeros, one row for each
\* xb point and one column for each time point.
C15_VpolPriority ==
    JustStored("vpol") =>
        Cur("vpol") =
            IF Given("vpolavg") THEN cdf0.vals["vpolavg"]
            ELSE IF Given("vpold") THEN cdf0.vals["vpold"]
            ELSE IF Given("vpolh") THEN cdf0.vals["vpolh"]
            ELSE [i \in 1..Len(cdf0.vals["xb"]) |-> [j \in 1..Len(cdf0.vals["time"]) |-> 0]]

\* vpolavg is null, vpold and vpolh are not and differ, and vpol took vpold
C15_Witness ==
    /\ JustStored("vpol")
    /\ ~Given("vpolavg") /\ Given("vpold") /\ Given("vpolh")
    /\ cdf0.vals["vpold"] # cdf0.vals["vpolh"]
    /\ Cur("vpol") = cdf0.vals["vpold"]

\* the eleven gradients, and the formulas that use gradients
Eleven ==
    { "gne", "gnh", "gni", "gnz", "gnd", "gq", "gte", "gti", "gvpar", "gvpol", "gvtor" }
UseGradients ==
    { "shear", "shat", "alphamhd", "gave", "etae", "etai", "etaie", "etaih", "etaid" }

\* the calls made before the last one
Earlier == { trace[i] : i \in 1..(Len(trace) - 1) }

\* how many calls op were made on Variable n
Times(op, n) == Cardinality({ i \in 1..Len(trace) : trace[i].op = op /\ trace[i].var = n })

\* C16: in one run drmin is computed exactly once, after all pre-gradient
\* formulas; each of the eleven gradients is computed exactly once, after drmin
\* and before any of shear, shat, alphamhd, gave, etae, etai, etaie, etaih,
\* etaid; and no gradient computation reads another gradient.
C16_DrminAndGradientsOnce ==
    /\ (trace # << >> /\ Last.op = "diff") =>
          /\ \A f \in Listed : Processed(f)
          /\ \A e \in Earlier : e.op # "diff" /\ e.op # "gradient"
    /\ (trace # << >> /\ Last.op = "gradient" /\ Last.var \in Eleven) =>
          /\ \E e \in Earlier : e.op = "diff"
          /\ \A e \in Earlier : ~(e.op = "gradient" /\ e.var = Last.var)
          /\ \A e \in Earlier : e.var \notin UseGradients
          /\ LastReads \cap (Eleven \cup Gradients) = {}
    /\ (trace # << >> /\ Last.op = "formula" /\ Last.var \in UseGradients) =>
          \A g \in Eleven : \E e \in Earlier : e.op = "gradient" /\ e.var = g
    /\ sub = "returned" =>
          /\ Times("diff", "rmin") = 1
          /\ \A g \in Eleven : Times("gradient", g) = 1

\* the last of the eleven gradients has just been computed
C16_Witness ==
    /\ trace # << >>
    /\ Last.op = "gradient"
    /\ sub # "raised"
    /\ \A g \in Eleven : Times("gradient", g) = 1
    /\ Times("diff", "rmin") = 1

\* one of the eleven gradients has just been computed and stored
GradientStored ==
    /\ trace # << >>
    /\ Last.op = "gradient"
    /\ Last.var \in Eleven
    /\ sub # "raised"

\* the Variable the gradient computed last differentiates
LastSource == Stages[Last.stage].src

\* the array A falls (d = -1) or rises (d = 1) from every radial point to the next
Monotone(A, d) ==
    \A i \in 1..(Len(A) - 1) : \A j \in 1..Len(A[i]) :
        IsFinite(A[i][j]) /\ IsFinite(A[i + 1][j]) /\ d * (A[i + 1][j] - A[i][j]) > 0

Positive(A) == \A a \in Elems(A) : IsFinite(a) /\ a > 0

\* rmin rises outward, rmaj and the source are positive, and the source falls
\* outward (q: rises outward)
SignPremises ==
    /\ Monotone(Cur("rmin"), 1)
    /\ Positive(Cur("rmaj"))
    /\ Positive(Cur(LastSource))
    /\ Monotone(Cur(LastSource), IF Last.var = "gq" THEN 1 ELSE 0 - 1)

\* the gradient computed last was passed drmin (gq) or -drmin (the others),
\* drmin being the radial difference of rmin
SameDrmin ==
    Last.arg = IF Last.var = "gq" THEN Diff(Cur("rmin")) ELSE Map1(Neg, Diff(Cur("rmin")))

\* C17: every gradient of a run is computed with the same drmin, the radial
\* difference of rmin, passed as it is for gq and negated for the other ten;
\* hence, rmin rising outward and rmaj and the source positive, a source that
\* falls outward gets a gradient that is nowhere negative, and so does a q that
\* rises outward.
C17_SignOfGradient ==
    GradientStored =>
        /\ SameDrmin
        /\ SignPremises => \A a \in Elems(Cur(Last.var)) : IsFinite(a) /\ a >= 0

\* C17 (amended): every gradient of a run is computed with the same drmin, the
\* radial difference of rmin, passed as it is for gq and negated for the other
\* ten; hence, rmin rising outward and rmaj and the source positive, the
\* difference quotient np.diff(var) / (-drmin) of a source that falls outward
\* is nowhere negative, and so is np.diff(q) / drmin of a q that rises outward.
C17_SignOfQuotient ==
    GradientStored =>
        /\ SameDrmin
        /\ SignPremises =>
              \A a \in Elems(dxvar(Cur(LastSource), Last.arg)) : IsFinite(a) /\ a >= 0

\* ne falls outward, every quotient is positive, and yet the gne stored has a
\* negative element, where the cubic through the quotients dips below zero
C17_Witness ==
    /\ GradientStored
    /\ Last.var = "gne"
    /\ SignPremises
    /\ \A a \in Elems(dxvar(Cur("ne"), Last.arg)) : a > 0
    /\ \E a \in Elems(Cur("gne")) : IsFinite(a) /\ a < 0

\* the self-test quantities, and the derived Variables that are not
SelfTests == { "test", "gtest", "test2" }
Ordinary == Derived \ SelfTests

\* what Variable n of the working container holds (nothing when it is None)
Value(n) == IF IsNone(containers[vars], n) THEN << >> ELSE Cur(n)

\* the run is at a statement of one of the three self-test stages
InSelfTests ==
    /\ vars # 0
    /\ sub \notin { "returned", "raised" }
    /\ pc \in 1..NStages
    /\ Stages[pc].name \in SelfTests

\* C18: test, gtest and test2 are the last stages of the run.  They are
\* computed and post-processed only after every ordinary formula and every one
\* of the eleven gradients has completed, and once the first self-test stage has
\* started no ordinary Variable or gradient is computed or modified.
C18_SelfTestsLast ==
    /\ [](/\ (trace # << >> /\ Last.var = "test" /\ Last.op = "formula")
                => \A n \in Ordinary : Processed(n)
          /\ (trace # << >> /\ Last.var \in SelfTests)
                => \A e \in Earlier : e.var \in SelfTests \/ e.stage < Last.stage
          /\ (trace # << >> /\ Last.var \in Ordinary)
                => \A e \in Earlier : e.var \notin SelfTests)
    /\ [][InSelfTests => \A n \in Ordinary : Value(n)' = Value(n)]_all_vars

\* test2, the last of the three, has been post-processed after all the rest
C18_Witness ==
    /\ trace # << >>
    /\ Last.op = "remove_nan"
    /\ Last.var = "test2"
    /\ Eleven \subseteq Ordinary
    /\ \A n \in Ordinary : Processed(n)
    /\ \E e \in Earlier : e.var = "gtest" /\ e.op = "gradient"

\* all there is to Variable n of the working container
Whole(n) ==
    [ values |-> Value(n), units |-> containers[vars].units[n],
      dims |-> containers[vars].dims[n] ]

\* a step of the run, between the copy of the container and the return
StepOfRun == vars # 0 /\ vars' = vars /\ sub # "returned" /\ trace' # << >>

HasShape(A, n, m) == Len(A) = n /\ \A i \in 1..Len(A) : Len(A[i]) = m

\* the container passed has its grids: xb and the other sources on n_radial
\* points, x on n_radial - 1, each at every time point
ValidGrids ==
    /\ Given("xb") /\ Given("x") /\ Given("time")
    /\ Len(cdf0.vals["x"]) = Len(cdf0.vals["xb"]) - 1
    /\ \A n \in Sources \ { "x", "time" } :
          Given(n) => HasShape(cdf0.vals[n], Len(cdf0.vals["xb"]), Len(cdf0.vals["time"]))

\* C20: for a container whose boundary-grid Variables have shape (n_radial,
\* n_time) and whose grid x has n_radial - 1 points, every formula output and
\* every gradient the pipeline stores has shape (n_radial, n_time), rho and
\* btor (one radial row broadcast over all rows) and the gradients (a radial
\* difference of n_radial - 1 rows, interpolated onto xb) included.
C20_OutputShape ==
    (ValidGrids /\ vars # 0) =>
        \A n \in Derived :
            ~IsNone(containers[vars], n) =>
                HasShape(Cur(n), Len(cdf0.vals["xb"]), Len(cdf0.vals["time"]))

\* a returned run: rho, btor and the gradients are there, on NR rows, while the
\* radial difference the gradients were computed from has NR - 1
C20_Witness ==
    /\ ValidGrids
    /\ ReturnedAll
    /\ Len(drmin) = NR - 1
    /\ \A n \in { "rho", "btor" } \cup Eleven : HasShape(Cur(n), NR, NT)

---------------------------------------------------------------------------
(* Properties of the third group of claims *)

\* the array A has no NaN entry
NoNaN(A) == \A i \in 1..Len(A) : \A j \in 1..Len(A[i]) : ~IsNaN(A[i][j])

\* the stage before the one control is in has been post-processed
StageBefore == IF vars # 0 /\ pc \in 2..(NStages + 1) THEN pc - 1 ELSE 0

\* some source the caller passed has an element that is 0
ZeroInInput ==
    \E n \in Required \ { "time", "x", "xb" } :
        cdf0.vals[n] # << >> /\ \E a \in Elems(cdf0.vals[n]) : a = 0

\* C21: a division by zero in a formula or in the gradient normalisation does
\* not abort the run and raises no error: with every required source there
\* (zeros among their numbers or not) the run goes through all its stages, and
\* once a stage has post-processed its Variable that Variable has no NaN entry.
C21_DivisionByZeroAbsorbed ==
    /\ NullSources = {} => sub # "raised" /\ err = NoError
    /\ (NullSources = {} /\ sub = "returned") => ReturnedAll
    /\ (StageBefore # 0 /\ touched = {}) =>
          (Stages[StageBefore].kind # "drmin" => NoNaN(Cur(Stages[StageBefore].name)))

\* a source has a zero, a formula or gradient of the run gives NaN or an
\* infinity from the values now stored, and the run has returned without NaN
C21_Witness ==
    /\ ZeroInInput
    /\ Complete
    /\ ReturnedAll
    /\ touched = {}
    /\ \E a \in Elems(etae(heap, containers[ret])) : ~IsFinite(a)
    /\ \E a \in Elems(tau(heap, containers[ret])) : ~IsFinite(a)
    /\ \A n \in Derived : NoNaN(Val(heap, containers[ret], n))

---------------------------------------------------------------------------
(* main/controls.py: InputControls and Control *)

\* the number 1 as a control value: control values are counted in millionths,
\* so that the lower bound 1e-6 of etgm_kyrhos is a number of the model
CUnit == 1000000

\* ShotType and ScanType (main/enums.py)
ShotTypes == { "NONE", "NSTX", "DIII_D" }
ScanTypes == { "NONE", "VARIABLE", "CONTROL" }

\* the controls, in the order __init__ creates them
ControlOrder ==
    << "npoints", "cmodel_weiland", "cmodel_dribm", "cmodel_etg", "cmodel_etgm",
       "cmodel_mtm", "weiland_exbs", "weiland_mpsf", "weiland_lbetd", "weiland_ubetd",
       "weiland_lbitd", "weiland_ubitd", "dribm_exbs", "dribm_kyrhos", "mtm_ky_kx",
       "mtm_cf", "etg_jenko_threshold", "etg_cees_scale", "etg_ceem_scale", "etgm_cl",
       "etgm_exbs", "etgm_kyrhoe", "etgm_kyrhos", "lprint" >>

ControlNames == { ControlOrder[k] : k \in 1..Len(ControlOrder) }

\* the controls with vtype=int
IntControls == { "npoints", "etg_jenko_threshold", "etgm_cl", "lprint" }

\* the values the Control objects are created with
DefaultValue(n) ==
    CASE n = "npoints" -> 51 * CUnit
      [] n \in { "weiland_lbetd", "weiland_lbitd", "etgm_exbs", "lprint" } -> 0
      [] n \in { "weiland_ubetd", "weiland_ubitd" } -> 100 * CUnit
      [] n = "dribm_kyrhos" -> CUnit \div 10
      [] n = "mtm_ky_kx" -> (2 * CUnit) \div 10
      [] n = "etg_jenko_threshold" -> 2 * CUnit
      [] n \in { "etg_cees_scale", "etg_ceem_scale" } -> (6 * CUnit) \div 100
      [] n = "etgm_kyrhoe" -> (25 * CUnit) \div 100
      [] n = "etgm_kyrhos" -> (33 * CUnit) \div 100
      [] OTHER -> CUnit

\* Python's max(a, b): a unless b is greater
Max(a, b) == IF b > a THEN b ELSE a

\* verify_values without the test of the shot type
VerifyBoundsOnly(c, st) ==
    [c EXCEPT !["etgm_kyrhos"] = Max(CUnit \div 1000000, @),
              !["etgm_kyrhoe"] = Max(0, @)]

\* verify_values without the two lower bounds
VerifyShotOnly(c, st) ==
    [c EXCEPT !["cmodel_dribm"] = IF st = "NSTX" THEN 0 ELSE @]

\* InputControls.verify_values, on the control values c of an object whose
\* _shot_type is st
verify_values(c, st) ==
    [c EXCEPT !["cmodel_dribm"] = IF st = "NSTX" THEN 0 ELSE @,
              !["etgm_kyrhos"] = Max(CUnit \div 1000000, @),
              !["etgm_kyrhoe"] = Max(0, @)]

\* InputControls.update_from_options(o): the control values and _shot_type after it
update_from_options(c, o) ==
    [ controls |-> verify_values([c EXCEPT !["npoints"] = o.input_points * CUnit],
                                 o.shot_type),
      shot_type |-> o.shot_type ]

\* InputControls.set(**kw): kw maps the keywords passed to their values
set(c, st, kw) ==
    verify_values([n \in ControlNames |-> IF n \in DOMAIN kw THEN kw[n] ELSE c[n]], st)

\* InputControls.__init__(o): o = << >> stands for options=None
InputControls(o) ==
    LET c == [n \in ControlNames |-> DefaultValue(n)]
    IN  IF o = << >> THEN [ controls |-> c, shot_type |-> "NONE" ]
        ELSE update_from_options(c, o)

\* Control.get_value_str: int(values) for an int control, '{values}D0' otherwise
get_value_str(n, v) ==
    IF n \in IntControls THEN [kind |-> "int", v |-> TruncDiv(v, CUnit)]
    ELSE [kind |-> "D0", v |-> v]

\* InputControls.get_mmm_header: what MMM_HEADER is filled with
get_mmm_header(c) == [n \in ControlNames |-> get_value_str(n, c[n])]

---------------------------------------------------------------------------
(* mmm_controller.py: main and the three kinds of run *)

\* the longest scan_range
MaxScan == 2

\* the input variables and the controls that are scanned
ScanVars == { "zeff", "nuei" }
ScanControls == { "cmodel_dribm", "etgm_kyrhos", "etgm_kyrhoe" }

\* scan_range: the factors 2, 3, ..
ScanRanges == { [k \in 1..n |-> k + 1] : n \in 0..MaxScan }

\* what is scanned
Scans ==
    { [scan_type |-> "NONE", var_to_scan |-> ""] }
    \cup { [scan_type |-> "VARIABLE", var_to_scan |-> v] : v \in ScanVars }
    \cup { [scan_type |-> "CONTROL", var_to_scan |-> v] : v \in ScanControls }

\* the values Options.instance may hold
OptionValues ==
    { [shot_type |-> st, input_points |-> 201, scan_type |-> sc.scan_type,
       var_to_scan |-> sc.var_to_scan, scan_range |-> r] :
        st \in ShotTypes, sc \in Scans, r \in ScanRanges }

\* the keywords and values InputControls.set is called with
SetValues(n) ==
    CASE n = "cmodel_dribm" -> { 0, CUnit }
      [] n = "etgm_kyrhos" -> { 0 - CUnit, 0, 2 * (CUnit \div 1000000) }
      [] n = "etgm_kyrhoe" -> { 0 - CUnit, CUnit \div 2 }

Keywords ==
    UNION { { kw \in [K -> UNION { SetValues(n) : n \in K }] :
                \A n \in K : kw[n] \in SetValues(n) } :
            K \in (SUBSET ScanControls) \ { {} } }

\* the container initialize_variables returns
InitialVars == [n \in ScanVars |-> IF n = "zeff" THEN 2 ELSE 5]

\* a scan factor, or None
None == << >>
Some(f) == << f >>

\* the scan factor of the iteration the program is in (None in the basic run)
Factor == IF scan_i = 0 THEN None ELSE Some(options.scan_range[scan_i])

\* a step of main: what was done, in which iteration, on what
Step(name, data) == [step |-> name, i |-> scan_i, factor |-> Factor, data |-> data]

\* adjust_scanned_variable given the adjusted container of the iteration before
PreviousAdjusted(base, adjusted) == IF adjusted = << >> THEN base ELSE adjusted

\* the container execute_variable_scan hands to adjust_scanned_variable
ScanBase(base, adjusted) == base

\* adjustments.adjust_scanned_variable(vs, var, f): a copy of vs with var scaled
adjust_scanned_variable(vs, var, f) == [vs EXCEPT ![var] = f * @]

\* the value execute_control_scan gives the scanned control, compounding
CompoundedValue(f, base, current) == f * current

\* scan_factor * base_control.values
ScannedValue(f, base, current) == f * base

\* write_inputs.write_input_file(vs, c): the header and the variables
write_input_file(vs, c) == [header |-> get_mmm_header(c), vars |-> vs, factor |-> Factor]

ControllerInit ==
    /\ options \in OptionValues
    /\ controls = << >>
    /\ shot_type = ""
    /\ mpc = "new"
    /\ scan_i = 0
    /\ mmm_vars = << >>
    /\ adjusted_vars = << >>
    /\ base_control = << >>
    /\ input_file = << >>
    /\ output_file = << >>
    /\ output_vars = << >>
    /\ log = << >>
    /\ CalcIdle /\ ModIdle /\ PlotIdle

Others == UNCHANGED << calc_vars, mod_vars, plot_vars >>

\* controls = InputControls(Options.instance), or InputControls()
Construct ==
    /\ mpc = "new"
    /\ \E o \in { options, << >> } :
          LET r == InputControls(o)
          IN  controls' = r.controls /\ shot_type' = r.shot_type
    /\ mpc' = "setup"
    /\ UNCHANGED << options, scan_i, mmm_vars, adjusted_vars, base_control, input_file,
                    output_file, output_vars, log >>
    /\ Others

\* controls.set(**kw)
Set ==
    /\ mpc = "setup"
    /\ \E kw \in Keywords : controls' = set(controls, shot_type, kw)
    /\ UNCHANGED << options, shot_type, mpc, scan_i, mmm_vars, adjusted_vars,
                    base_control, input_file, output_file, output_vars, log >>
    /\ Others

\* controls.update_from_options(o), whatever the shot type of o
UpdateFromOptions ==
    /\ mpc = "setup"
    /\ \E st \in ShotTypes :
          LET r == update_from_options(controls, [options EXCEPT !.shot_type = st])
          IN  controls' = r.controls /\ shot_type' = r.shot_type
    /\ UNCHANGED << options, mpc, scan_i, mmm_vars, adjusted_vars, base_control,
                    input_file, output_file, output_vars, log >>
    /\ Others

\* what main and its runs leave alone unless they say otherwise
Keep(vs) == UNCHANGED vs /\ UNCHANGED << options, shot_type >> /\ Others

\* main, lines 149-162
MainInit ==
    /\ mpc = "setup"
    /\ mmm_vars' = InitialVars
    /\ log' = log \o << Step("save_controls", controls), Step("save_all_vars", InitialVars) >>
    /\ mpc' = "basic_write"
    /\ Keep(<< controls, scan_i, adjusted_vars, base_control, input_file, output_file,
               output_vars >>)

\* write_inputs.write_input_file(vs, controls), lines 28, 67, 107
Write(vs, to) ==
    /\ input_file' = write_input_file(vs, controls)
    /\ log' = Append(log, Step("write_input_file", write_input_file(vs, controls)))
    /\ mpc' = to
    /\ Keep(<< controls, scan_i, mmm_vars, adjusted_vars, base_control, output_file,
               output_vars >>)

\* run_driver.run_mmm_driver(), lines 29, 68, 108: the driver reads the input
\* file there is and writes the output file
Driver(to) ==
    /\ output_file' = [input |-> input_file]
    /\ log' = Append(log, Step("run_mmm_driver", input_file))
    /\ mpc' = to
    /\ Keep(<< controls, scan_i, mmm_vars, adjusted_vars, base_control, input_file,
               output_vars >>)

\* output_vars = read_output.read_output_file(scan_factor), lines 30, 69, 109
Read(to) ==
    /\ output_vars' = [file |-> output_file, factor |-> Factor]
    /\ log' = Append(log, Step("read_output_file", output_file))
    /\ mpc' = to
    /\ Keep(<< controls, scan_i, mmm_vars, adjusted_vars, base_control, input_file,
               output_file >>)

\* output_vars.save_all_vars(Options.instance, scan_factor), lines 31-32, 70, 110
Save(to) ==
    /\ log' = Append(log, Step("save_output_vars", output_vars))
    /\ mpc' = to
    /\ Keep(<< controls, scan_i, mmm_vars, adjusted_vars, base_control, input_file,
               output_file, output_vars >>)

\* execute_basic_run
BasicWrite ==
    /\ mpc = "basic_write"
    /\ Write(mmm_vars, "basic_driver")
BasicDriver ==
    /\ mpc = "basic_driver"
    /\ Driver("basic_read")
BasicRead ==
    /\ mpc = "basic_read"
    /\ Read("basic_save")
BasicSave ==
    /\ mpc = "basic_save"
    /\ Save("branch")

\* main without its scan branch
BranchSkipsScan ==
    /\ mpc = "branch"
    /\ mpc' = "done"
    /\ Keep(<< controls, scan_i, mmm_vars, adjusted_vars, base_control, input_file,
               output_file, output_vars, log >>)

\* main, lines 166-169
Branch ==
    /\ mpc = "branch"
    /\ mpc' = CASE options.scan_type = "VARIABLE" -> "vs_start"
                [] options.scan_type = "CONTROL" -> "cs_start"
                [] OTHER -> "done"
    /\ Keep(<< controls, scan_i, mmm_vars, adjusted_vars, base_control, input_file,
               output_file, output_vars, log >>)

\* execute_variable_scan, lines 56-58
VS_Start ==
    /\ mpc = "vs_start"
    /\ log' = Append(log, Step("save_controls", controls))
    /\ mpc' = "vs_loop"
    /\ Keep(<< controls, scan_i, mmm_vars, adjusted_vars, base_control, input_file,
               output_file, output_vars >>)

\* the for statement of line 60 with lines 65-66, or the end of the loop
VS_Next ==
    /\ mpc = "vs_loop"
    /\ IF scan_i < Len(options.scan_range)
       THEN LET a == adjust_scanned_variable(ScanBase(mmm_vars, adjusted_vars),
                                             options.var_to_scan,
                                             options.scan_range[scan_i + 1])
            IN  /\ scan_i' = scan_i + 1
                /\ adjusted_vars' = a
                /\ log' = Append(log, [step |-> "save_adjusted_vars", i |-> scan_i + 1,
                                       factor |-> Some(options.scan_range[scan_i + 1]),
                                       data |-> a])
                /\ mpc' = "vs_write"
       ELSE /\ mpc' = "parse"
            /\ UNCHANGED << scan_i, adjusted_vars, log >>
    /\ Keep(<< controls, mmm_vars, base_control, input_file, output_file, output_vars >>)

VS_Write ==
    /\ mpc = "vs_write"
    /\ Write(adjusted_vars, "vs_driver")
VS_Driver ==
    /\ mpc = "vs_driver"
    /\ Driver("vs_read")
VS_Read ==
    /\ mpc = "vs_read"
    /\ Read("vs_save")
VS_Save ==
    /\ mpc = "vs_save"
    /\ Save("vs_loop")

\* execute_control_scan, lines 91-97: base_control = deepcopy(scanned_control)
CS_Start ==
    /\ mpc = "cs_start"
    /\ base_control' = << controls[options.var_to_scan] >>
    /\ mpc' = "cs_loop"
    /\ Keep(<< controls, scan_i, mmm_vars, adjusted_vars, input_file, output_file,
               output_vars, log >>)

\* the for statement of line 99 with lines 104-106, or the end of the loop
CS_Next ==
    /\ mpc = "cs_loop"
    /\ IF scan_i < Len(options.scan_range)
       THEN LET f == options.scan_range[scan_i + 1]
                c == [controls EXCEPT ![options.var_to_scan] =
                         ScannedValue(f, base_control[1], @)]
            IN  /\ scan_i' = scan_i + 1
                /\ controls' = c
                /\ log' = log \o
                      << [step |-> "save_all_vars", i |-> scan_i + 1, factor |-> Some(f),
                          data |-> mmm_vars],
                         [step |-> "save_controls", i |-> scan_i + 1, factor |-> Some(f),
                          data |-> c] >>
                /\ mpc' = "cs_write"
       ELSE /\ mpc' = "parse"
            /\ UNCHANGED << scan_i, controls, log >>
    /\ Keep(<< mmm_vars, adjusted_vars, base_control, input_file, output_file,
               output_vars >>)

CS_Write ==
    /\ mpc = "cs_write"
    /\ Write(mmm_vars, "cs_driver")
CS_Driver ==
    /\ mpc = "cs_driver"
    /\ Driver("cs_read")
CS_Read ==
    /\ mpc = "cs_read"
    /\ Read("cs_save")
CS_Save ==
    /\ mpc = "cs_save"
    /\ Save("cs_loop")

\* parse_scans.parse_scan_csv(), lines 73 and 113
Parse ==
    /\ mpc = "parse"
    /\ log' = Append(log, Step("parse_scan_csv", 0))
    /\ mpc' = "done"
    /\ Keep(<< controls, scan_i, mmm_vars, adjusted_vars, base_control, input_file,
               output_file, output_vars >>)

ControllerNext ==
    \/ Construct
    \/ Set
    \/ UpdateFromOptions
    \/ MainInit
    \/ BasicWrite
    \/ BasicDriver
    \/ BasicRead
    \/ BasicSave
    \/ Branch
    \/ VS_Start
    \/ VS_Next
    \/ VS_Write
    \/ VS_Driver
    \/ VS_Read
    \/ VS_Save
    \/ CS_Start
    \/ CS_Next
    \/ CS_Write
    \/ CS_Driver
    \/ CS_Read
    \/ CS_Save
    \/ Parse

\* the controls are built and set, and main is run on them
SpecController == ControllerInit /\ [][ControllerNext]_all_vars

---------------------------------------------------------------------------
(* Properties of the controls and of main *)

\* the control values recorded by the save_controls steps of main
SavedControls == { log[k].data : k \in { j \in 1..Len(log) : log[j].step = "save_controls" } }

\* the headers written by the write_input_file steps of main
WrittenHeaders ==
    { log[k].data.header : k \in { j \in 1..Len(log) : log[j].step = "write_input_file" } }

C28_LowerBounds ==
    (mpc = "setup") =>
        /\ controls["etgm_kyrhos"] >= CUnit \div 1000000
        /\ controls["etgm_kyrhoe"] >= 0
        /\ \A n \in { "etgm_kyrhos", "etgm_kyrhoe" } : \A v \in SetValues(n) :
              v >= (IF n = "etgm_kyrhos" THEN CUnit \div 1000000 ELSE 0)
                 => verify_values([controls EXCEPT ![n] = v], shot_type)[n] = v
        /\ verify_values(controls, shot_type) = controls

\* set was called with values below both bounds, on controls built from options
C28_Witness ==
    /\ mpc = "setup"
    /\ shot_type = options.shot_type
    /\ controls["npoints"] = options.input_points * CUnit
    /\ controls["etgm_kyrhos"] = CUnit \div 1000000
    /\ controls["etgm_kyrhoe"] = 0

\* the four steps of a run of the driver, in the order of lines 28-32
RunSteps == << "write_input_file", "run_mmm_driver", "read_output_file", "save_output_vars" >>

IsRunStep(e) == \E k \in 1..Len(RunSteps) : e.step = RunSteps[k]

\* the steps of the log that belong to a run of the driver
RunLog == SelectSeq(log, IsRunStep)

\* the scan factor of iteration i, None for the basic run
FactorOf(i) == IF i = 0 THEN None ELSE Some(options.scan_range[i])

\* the number of scan iterations main is to make
Iterations == IF options.scan_type = "NONE" THEN 0 ELSE Len(options.scan_range)

\* C25: the steps of the driver runs come in groups of four, write, driver,
\* read, save; the first group is the basic run, the k-th group after it is
\* iteration k of the one scan loop, with its own scan factor; the driver runs
\* on the input file written in its own group and the output read is the one
\* that run produced; when main is done there are as many groups after the
\* basic run as the scan has factors, none without a scan, and the scans were
\* parsed once exactly when a scan was asked for.
C25_RunOrder ==
    /\ \A k \in 2..Len(log) : log[k - 1].i <= log[k].i
    /\ \A k \in 1..Len(RunLog) :
          /\ RunLog[k].step = RunSteps[((k - 1) % 4) + 1]
          /\ RunLog[k].i = (k - 1) \div 4
          /\ RunLog[k].i <= Iterations
          /\ RunLog[k].factor = FactorOf(RunLog[k].i)
          /\ RunLog[k].step = "write_input_file" => RunLog[k].data.factor = RunLog[k].factor
          /\ RunLog[k].step = "run_mmm_driver" =>
                /\ RunLog[k].data.factor = RunLog[k].factor
                /\ RunLog[k].data = RunLog[k - 1].data
          /\ RunLog[k].step = "read_output_file" =>
                RunLog[k].data.input = RunLog[k - 1].data
          /\ RunLog[k].step = "save_output_vars" =>
                /\ RunLog[k].data.file = RunLog[k - 1].data
                /\ RunLog[k].data.factor = RunLog[k].factor
    /\ mpc = "done" =>
          /\ Len(RunLog) = 4 * (1 + Iterations)
          /\ Cardinality({ k \in 1..Len(log) : log[k].step = "parse_scan_csv" })
                = IF options.scan_type = "NONE" THEN 0 ELSE 1

\* main is done after a basic run and a control scan of two factors
C25_Witness ==
    /\ mpc = "done"
    /\ options.scan_type = "CONTROL"
    /\ Len(options.scan_range) = 2
    /\ Len(RunLog) = 12
    /\ RunLog[6].step = "run_mmm_driver"
    /\ RunLog[6].factor = Some(2)

\* C26: in a variable scan the base container stays as initialize_variables
\* returned it, and the adjusted container of iteration i, as saved and as
\* written to the input file, is the base with the scanned variable multiplied
\* by the factor of iteration i alone.
C26_BaseKeptSeparate ==
    /\ mmm_vars # << >> => mmm_vars = InitialVars
    /\ options.scan_type = "VARIABLE" =>
          /\ adjusted_vars # << >> =>
                /\ adjusted_vars[options.var_to_scan]
                      = options.scan_range[scan_i] * InitialVars[options.var_to_scan]
                /\ \A n \in ScanVars \ { options.var_to_scan } :
                      adjusted_vars[n] = InitialVars[n]
          /\ \A k \in 1..Len(log) :
                (log[k].step \in { "save_adjusted_vars", "write_input_file" } /\ log[k].i > 0) =>
                   LET vs == IF log[k].step = "write_input_file" THEN log[k].data.vars
                             ELSE log[k].data
                   IN  vs = [InitialVars EXCEPT ![options.var_to_scan] =
                                options.scan_range[log[k].i] * @]

\* the second iteration of a scan of zeff has written its input file
C26_Witness ==
    /\ options.scan_type = "VARIABLE"
    /\ options.var_to_scan = "zeff"
    /\ scan_i = 2
    /\ mpc = "vs_driver"
    /\ input_file.vars["zeff"] = 6
    /\ mmm_vars["zeff"] = 2

\* the controls as main saved them before the basic run
ControlsBeforeScan == log[1].data

\* C27: in a control scan the controls saved and the header written in
\* iteration i are the controls of before the scan with the scanned control
\* replaced by scan_range[i] times its value of before the scan.
C27_ControlScanFromBase ==
    (options.scan_type = "CONTROL" /\ log # << >>) =>
        /\ base_control # << >> => base_control[1] = ControlsBeforeScan[options.var_to_scan]
        /\ \A k \in 1..Len(log) :
              (log[k].step \in { "save_controls", "write_input_file" } /\ log[k].i > 0) =>
                 LET c == [ControlsBeforeScan EXCEPT ![options.var_to_scan] =
                              options.scan_range[log[k].i] * @]
                 IN  IF log[k].step = "save_controls" THEN log[k].data = c
                     ELSE log[k].data.header = [n \in ControlNames |-> get_value_str(n, c[n])]
        /\ scan_i > 0 =>
              \A n \in ControlNames \ { options.var_to_scan } :
                 controls[n] = ControlsBeforeScan[n]

\* the second iteration of a scan of etgm_kyrhoe from 0.5 has written 1.5
C27_Witness ==
    /\ options.scan_type = "CONTROL"
    /\ options.var_to_scan = "etgm_kyrhoe"
    /\ scan_i = 2
    /\ mpc = "cs_driver"
    /\ base_control = << CUnit \div 2 >>
    /\ input_file.header["etgm_kyrhoe"].v = 3 * (CUnit \div 2)

---------------------------------------------------------------------------
(* modules/controls.py: InputControls *)

\* the most keywords one call is given
MaxKw == 2

\* the values a Control holds: None, a number, a numpy array of numbers
NoneValue == [k |-> "none", v |-> << >>]
Scalar(n) == [k |-> "num", v |-> << n >>]
Array(s) == [k |-> "array", v |-> s]

\* the controls the model carries (of the 56 of lines 87-143), the attributes
\* of an InputControls object that are not controls, and a name that is no
\* attribute at all
ModuleControls == { "input_points", "cmodel_dribm", "lprint" }
OtherAttributes == { "set" }
NoAttribute == "bogus"

\* the default of each control, lines 87-143
ModuleDefault(n) ==
    CASE n = "input_points" -> NoneValue
      [] n = "cmodel_dribm" -> Scalar(1)
      [] n = "lprint" -> Scalar(0)

\* the Options objects: input_points is None or 51
ModuleOptions == { [input_points |-> NoneValue], [input_points |-> Scalar(51)] }

\* the keyword arguments of a call: up to MaxKw different keywords, in order
KeywordValues(n) ==
    CASE n = "input_points" -> { NoneValue, Scalar(0), Scalar(51) }
      [] n = "cmodel_dribm" -> { Scalar(0) }
      [] OTHER -> { Scalar(1) }

KeywordNames == { "input_points", "cmodel_dribm", "set", NoAttribute }

KwArgs ==
    UNION { { kw \in [1..n -> [key : KeywordNames,
                                value : UNION { KeywordValues(m) : m \in KeywordNames }]] :
                /\ \A j \in 1..n : kw[j].value \in KeywordValues(kw[j].key)
                /\ \A j, l \in 1..n : j # l => kw[j].key # kw[l].key } :
            n \in 0..MaxKw }

\* Python's not x: "True", "False", or the ValueError numpy raises for the
\* truth value of an array of more than one element
Not(x) ==
    CASE x.k = "none" -> "True"
      [] x.k = "num" -> IF x.v[1] = 0 THEN "True" ELSE "False"
      [] x.k = "array" -> IF Len(x.v) > 1 THEN "ValueError"
                          ELSE IF x.v[1] = 0 THEN "True" ELSE "False"

\* the outcome of a call: the exception raised ("" for none), the controls
\* after it and the value returned
Outcome(raised, c, value) == [raised |-> raised, controls |-> c, value |-> value]

\* InputControls.set(**kw), from keyword j on: the loop of lines 152-155,
\* then verify_values, which does nothing (line 161)
RECURSIVE modules_set(_, _, _)
modules_set(c, kw, j) ==
    IF j > Len(kw) THEN Outcome("", c, << >>)
    ELSE IF kw[j].key \notin ModuleControls \cup OtherAttributes
         THEN Outcome("ValueError", c, << >>)
    ELSE IF kw[j].key \in OtherAttributes
         THEN Outcome("AttributeError", c, << >>)
    ELSE modules_set([c EXCEPT ![kw[j].key] = kw[j].value], kw, j + 1)

\* __init__ without the test of lines 83-85
InitWithoutTest(o, kw) ==
    modules_set([n \in ModuleControls |->
                    IF n = "input_points" /\ o # << >> THEN o.input_points
                    ELSE ModuleDefault(n)], kw, 1)

\* InputControls(o, **kw): o is << >> for options=None
modules_InputControls(o, kw) ==
    IF kw # << >> /\ o = << >>
    THEN Outcome("ValueError", << >>, << >>)
    ELSE modules_set([n \in ModuleControls |->
                         IF n = "input_points" /\ o # << >> THEN o.input_points
                         ELSE ModuleDefault(n)], kw, 1)

\* the header: the input line of every control
modules_header(c) == [n \in ModuleControls |-> c[n].v[1]]

\* InputControls.get_mmm_header, lines 172-178
modules_get_mmm_header(c, o) ==
    LET x == c["input_points"]
        filled == IF o # << >> /\ Not(o.input_points) = "False"
                  THEN [c EXCEPT !["input_points"] = o.input_points]
                  ELSE c
    IN  CASE Not(x) = "ValueError" -> Outcome("ValueError", c, << >>)
          [] Not(x) = "True" /\ o = << >> -> Outcome("AttributeError", c, << >>)
          [] Not(x) = "True" /\ o # << >> ->
                IF Not(filled["input_points"]) = "True"
                THEN Outcome("TypeError", filled, << >>)
                ELSE Outcome("", filled, modules_header(filled))
          [] OTHER ->
                IF x.k = "array" THEN Outcome("TypeError", c, << >>)
                ELSE Outcome("", c, modules_header(c))

\* the arrays _load_from_np_csv reads from a column of one or two rows
Columns == { << 0 >>, << 51 >>, << 51, 101 >> }

ModuleInit ==
    /\ mcontrols = << >>
    /\ moptions = << >>
    /\ mresult = << >>
    /\ CalcIdle /\ CtlIdle /\ PlotIdle

ModuleOthers == UNCHANGED << calc_vars, ctl_vars, plot_vars >>

\* the record of a call: its name and arguments, the controls before it, the
\* controls where it ended, and what it raised and returned
Call(op, o, kw, r) ==
    [op |-> op, options |-> o, kw |-> kw, before |-> mcontrols, after |-> r.controls,
     raised |-> r.raised, value |-> r.value]

\* controls = InputControls(o, **kw); a constructor that raises leaves no object
ModuleConstruct ==
    /\ \E o \in ModuleOptions \cup { << >> }, kw \in KwArgs :
          LET r == modules_InputControls(o, kw)
          IN  /\ mresult' = Call("init", o, kw, r)
              /\ mcontrols' = IF r.raised = "" THEN r.controls ELSE << >>
              /\ moptions' = IF r.raised = "" THEN o ELSE << >>
    /\ ModuleOthers

\* controls.set(**kw)
ModuleSet ==
    /\ mcontrols # << >>
    /\ \E kw \in KwArgs :
          LET r == modules_set(mcontrols, kw, 1)
          IN  /\ mresult' = Call("set", moptions, kw, r)
              /\ mcontrols' = r.controls
    /\ UNCHANGED moptions
    /\ ModuleOthers

\* controls._load_from_np_csv(file), the file holding a column input_points
ModuleLoad ==
    /\ mcontrols # << >>
    /\ \E s \in Columns :
          /\ mcontrols' = [mcontrols EXCEPT !["input_points"] = Array(s)]
          /\ mresult' = Call("load", moptions, << >>,
                             Outcome("", [mcontrols EXCEPT !["input_points"] = Array(s)], << >>))
    /\ UNCHANGED moptions
    /\ ModuleOthers

\* controls.get_mmm_header()
ModuleHeader ==
    /\ mcontrols # << >>
    /\ LET r == modules_get_mmm_header(mcontrols, moptions)
       IN  /\ mresult' = Call("header", moptions, << >>, r)
           /\ mcontrols' = r.controls
    /\ UNCHANGED moptions
    /\ ModuleOthers

ModuleNext ==
    \/ ModuleConstruct
    \/ ModuleSet
    \/ ModuleLoad
    \/ ModuleHeader

\* InputControls objects of modules/controls.py are built, set, loaded and
\* asked for their header
SpecModule == ModuleInit /\ [][ModuleNext]_all_vars

---------------------------------------------------------------------------
(* Properties of InputControls of modules/controls.py *)

\* a call of the given method has just ended
Called(op) == mresult # << >> /\ mresult.op = op

\* C23: get_mmm_header raises TypeError when input_points is None and when it
\* is a numpy array, and otherwise returns the header and changes no control
\* but input_points.
C23_HeaderTypeErrors ==
    Called("header") =>
        LET x == mresult.before["input_points"]
        IN  /\ x.k \in { "none", "array" } => mresult.raised = "TypeError"
            /\ x.k = "num" =>
                  /\ mresult.raised = ""
                  /\ mresult.value = modules_header(mcontrols)
                  /\ \A n \in ModuleControls \ { "input_points" } :
                        mcontrols[n] = mresult.before[n]

\* C24: a construction with keywords and without options raises ValueError
\* with no control created, and a construction without keywords and without
\* options gives an object with every control at its default and input_points
\* None.
C24_ConstructorGuard ==
    (Called("init") /\ mresult.options = << >>) =>
        IF mresult.kw # << >>
        THEN /\ mresult.raised = "ValueError"
             /\ mresult.after = << >>
             /\ mcontrols = << >>
        ELSE /\ mresult.raised = ""
             /\ mcontrols = [n \in ModuleControls |-> ModuleDefault(n)]
             /\ mcontrols["input_points"] = NoneValue
             /\ mcontrols["cmodel_dribm"] = Scalar(1)

\* InputControls(cmodel_dribm=0) has raised ValueError
C24_Witness ==
    /\ Called("init")
    /\ mresult.options = << >>
    /\ mresult.kw = << [key |-> "cmodel_dribm", value |-> Scalar(0)] >>
    /\ mresult.raised = "ValueError"
    /\ mcontrols = << >>

\* C29: set with a keyword that is no control raises ValueError and leaves
\* every control as it was.
C29_SetAllOrNothing ==
    (Called("set") /\ \E j \in 1..Len(mresult.kw) : mresult.kw[j].key \notin ModuleControls) =>
        /\ mresult.raised = "ValueError"
        /\ mcontrols = mresult.before

---------------------------------------------------------------------------
(* plots/plot_profiles.py: run_plotting_loop *)

\* the longest plotdata list
MaxPlots == 7

\* subplot rows and columns of a sheet (plots.styles.standard)
ROWS == 2
COLS == 3

\* the plotdata lists: every item is a PlotData or None
PlotLists == UNION { [1..n -> { "PlotData", "None" }] : n \in 0..MaxPlots }

\* row = int(i / COLS) % ROWS and col = i % COLS, lines 114-115
Row(i) == (i \div COLS) % ROWS
Col(i) == i % COLS

PlotInit ==
    /\ plotdata \in PlotLists
    /\ ppc = "loop"
    /\ loop_i = 0 - 1
    /\ fig = 0
    /\ figures = << >>
    /\ sheets = << >>
    /\ perror = ""
    /\ CalcIdle /\ CtlIdle /\ ModIdle

PlotOthers == UNCHANGED << calc_vars, ctl_vars, mod_vars >>

\* one pass of the loop of lines 111-135, for item i of the list (counted from
\* 0): figures holds the subplots drawn on every figure made so far, fig is
\* the figure the names fig and axs are bound to, sheets the files saved
PlotIterate ==
    /\ ppc = "loop"
    /\ loop_i + 1 < Len(plotdata)
    /\ LET i == loop_i + 1
           data == plotdata[i + 1]
           first == Row(i) = 0 /\ Col(i) = 0
           f == IF first THEN Len(figures) + 1 ELSE fig
           made == IF first THEN Append(figures, {}) ELSE figures
           drawn == IF data # "None"
                    THEN [made EXCEPT ![f] = @ \cup { [row |-> Row(i), col |-> Col(i), item |-> i] }]
                    ELSE made
       IN  /\ loop_i' = i
           /\ IF first /\ data = "None"
              THEN /\ perror' = "AttributeError"
                   /\ ppc' = "raised"
                   /\ UNCHANGED << fig, figures, sheets >>
              ELSE /\ fig' = f
                   /\ figures' = drawn
                   /\ sheets' = IF (i + 1) % (ROWS * COLS) = 0
                                THEN Append(sheets, [name |-> (i + 1) \div 6, fig |-> f])
                                ELSE sheets
                   /\ UNCHANGED << perror, ppc >>
    /\ UNCHANGED plotdata
    /\ PlotOthers

\* the end of the loop and lines 137-139: i is unbound when the list was empty
PlotFinish ==
    /\ ppc = "loop"
    /\ loop_i + 1 = Len(plotdata)
    /\ IF loop_i < 0
       THEN /\ perror' = "UnboundLocalError"
            /\ ppc' = "raised"
            /\ UNCHANGED sheets
       ELSE /\ sheets' = IF (loop_i + 1) % (ROWS * COLS) # 0
                         THEN Append(sheets, [name |-> ((loop_i + 1) \div 6) + 1, fig |-> fig])
                         ELSE sheets
            /\ ppc' = "merge"
            /\ UNCHANGED perror
    /\ UNCHANGED << plotdata, loop_i, fig, figures >>
    /\ PlotOthers

\* lines 141-148: the sheets are merged and the figures closed
PlotClose ==
    /\ ppc = "merge"
    /\ ppc' = "done"
    /\ UNCHANGED << plotdata, loop_i, fig, figures, sheets, perror >>
    /\ PlotOthers

PlotNext ==
    \/ PlotIterate
    \/ PlotFinish
    \/ PlotClose

\* run_plotting_loop is called with a list of PlotData and None items
SpecPlot == PlotInit /\ [][PlotNext]_all_vars

\* sheets needed for n items
SheetsFor(n) == (n + (ROWS * COLS) - 1) \div (ROWS * COLS)

\* C30: run_plotting_loop ends without an error for every list; then every
\* item that is not None is drawn once, at row (i div COLS) mod ROWS and
\* column i mod COLS of the figure of its sheet, the place of every None item
\* is empty, and every figure is saved once under a name of its own, one sheet
\* for every ROWS*COLS items or part of them.
C30_PlottingLoopTotal ==
    /\ perror = ""
    /\ ppc = "done" =>
          /\ Len(figures) = SheetsFor(Len(plotdata))
          /\ Len(sheets) = SheetsFor(Len(plotdata))
          /\ \A j, k \in 1..Len(sheets) :
                j # k => sheets[j].name # sheets[k].name /\ sheets[j].fig # sheets[k].fig
          /\ \A i \in 0..(Len(plotdata) - 1) :
                LET place == [row |-> Row(i), col |-> Col(i), item |-> i]
                    sheet == (i \div (ROWS * COLS)) + 1
                IN  \A f \in 1..Len(figures) :
                       place \in figures[f] <=> (plotdata[i + 1] # "None" /\ f = sheet)
          /\ \A f \in 1..Len(figures) : \A d, e \in figures[f] :
                (d.row = e.row /\ d.col = e.col) => d = e

=============================================================================
